---- MODULE Spec2Model ----
(***************************************************************************)
(* Model of src/src/pages/api/execute-metric.ts: one call of               *)
(* executeJsInIsolate(jsCode), the sandboxed snippet it drives, and the    *)
(* six host capabilities of exposedApiImplementations.                     *)
(*                                                                         *)
(* The sandboxing engine is modelled by the contract the driver's calls    *)
(* ask of it: script.run(context, {timeout, result: {promise, reference}}) *)
(* runs the synchronous part of the snippet under the timeout and hands    *)
(* back a reference to its promise; promiseRef.apply(.., {timeout,         *)
(* result: {promise, copy}}) waits for that promise under the timeout and  *)
(* hands back a copy of the resolved value.  Time is counted in steps of   *)
(* TickMs milliseconds.                                                    *)
(*                                                                         *)
(* Six specifications share the actions:                                   *)
(*   Spec         one call and a snippet that calls any capabilities;      *)
(*   SpecApi      one capability implementation evaluated on one answer    *)
(*                of the data provider (src/src/pages/api/equity-data.ts); *)
(*   SpecSession  one call watched closely: its teardown calls may throw,  *)
(*                its snippet may use other host names, assign to a        *)
(*                capability name, run out of memory, and be answered      *)
(*                after the call ended;                                    *)
(*   SpecPair     two concurrent calls sharing the engine;                 *)
(*   SpecTest     one call running code1 or code2 of                       *)
(*                src/src/pages/api/execute-metric.test.ts, answered by    *)
(*                the capability implementations;                          *)
(*   SpecSim      one call of runSimulation (same file).                   *)
(***************************************************************************)
EXTENDS Integers, Sequences, FiniteSets, TLC

\* ---------------------------------------------------------------- bounds
\* Granularity of the wall clock, in milliseconds.
TickMs == 5000
\* Most capability calls one snippet issues.
MaxCalls == 2
\* The "small fixed epsilon" by which a session may outlive its deadline.
Epsilon == 1000

\* ------------------------------------------------------ program constants
SCRIPT_EXECUTION_TIMEOUT == 15000

\* ------------------------------------------------------------------ values
\* A JavaScript value: its type and a payload.
Val(t, v) == [t |-> t, v |-> v]
Null == Val("null", 0)
Undefined == Val("undefined", 0)
EmptyList == Val("list", 0)
NoValue == Val("none", 0)
NoError == "none"

\* Two distinct arguments for each capability (two tickers, two dates, ...).
Args == {1, 2}

\* The keys of exposedApiImplementations, in Object.entries order.
ApiNames == <<"getTickerPrice", "getHistoricalData", "getExchangeRate",
              "findLastEarningsDate", "getPriceOnDate", "getDateAfterTradingDays">>
Caps == {ApiNames[i] : i \in 1..Len(ApiNames)}
CapIndex(cap) == CHOOSE i \in 1..Len(ApiNames) : ApiNames[i] = cap

\* What the underlying fetch / date arithmetic of a capability yields for an
\* argument when it does not throw: a value that identifies (cap, arg).
UnderlyingValue(cap, arg) ==
    IF cap = "getHistoricalData" THEN Val("list", arg)
    ELSE IF cap \in {"findLastEarningsDate", "getDateAfterTradingDays"}
         THEN Val("string", 10 * CapIndex(cap) + arg)
         ELSE Val("number", 10 * CapIndex(cap) + arg)

\* The value each capability returns from its catch block.
Sentinel(cap) == IF cap = "getHistoricalData" THEN EmptyList ELSE Null

\* An implementation without its try/catch: the failure rejects the call.
CapabilitySettlementRejecting(cap, arg, underlying) ==
    IF underlying = "throws"
    THEN [how |-> "reject", value |-> NoValue]
    ELSE [how |-> "resolve", value |-> UnderlyingValue(cap, arg)]

\* The names execute-metric.ts imports from date-fns.
Imports == {"format", "addDays", "parseISO", "isWeekend", "subDays",
            "differenceInCalendarDays"}

\* How the promise of one capability call settles, given what the code
\* inside its try block does ("ok" or "throws"): every implementation
\* catches and returns its sentinel.  The try block of findLastEarningsDate
\* always throws: it calls startOfDay, which is not imported.
CapabilitySettlement(cap, arg, underlying) ==
    IF underlying = "throws"
           \/ (cap = "findLastEarningsDate" /\ "startOfDay" \notin Imports)
    THEN [how |-> "resolve", value |-> Sentinel(cap)]
    ELSE [how |-> "resolve", value |-> UnderlyingValue(cap, arg)]

\* result: {copy: true}: plain data is deep-copied, a function cannot be.
Transferable(val) == val.t # "function"
Copy(val) == Val(val.t, val.v)

\* Values a snippet may produce by itself.
OwnValues == {Null, Undefined, Val("number", 0), Val("function", 1)}

VARIABLES
    jsCode,       \* the snippet: [valid |-> does it compile]
    pc,           \* position of executeJsInIsolate
    isolate,      \* "null" | "live" | "disposed"
    context,      \* "null" | "live" | "released"
    jail,         \* names installed on the context's global
    clock,        \* wall clock, ms
    runStart,     \* clock when script.run was called (-1 before)
    phaseStart,   \* clock when the current engine call was made
    sn,           \* the snippet inside the sandbox
    snValue,      \* value its promise resolved to
    calls,        \* capability calls issued, in order
    outcome,      \* what the caller of executeJsInIsolate gets
    settledAt,    \* clock when return / throw was reached (-1 before)
    teardown,     \* teardown calls made, in order
    isolateId,    \* which isolate of the engine this call created (0 before)
    engine,       \* the engine: isolates created so far, isolates disposed
    faults,       \* the teardown calls that throw for this call
    hostUse,      \* other host names the snippet used: reached / unbound
    rebound,      \* capability names the snippet has assigned to
    peer,         \* a second, concurrent call of executeJsInIsolate
    ev,           \* the last capability implementation evaluated on the host
    sim           \* a call of runSimulation

\* The variables of one call of executeJsInIsolate.
driverVars == <<jsCode, pc, isolate, context, jail, clock, runStart,
                phaseStart, sn, snValue, calls, outcome, settledAt, teardown>>

\* What no step of the driver itself changes.
others == <<ev, hostUse, rebound, peer, faults, sim>>

vars == <<driverVars, isolateId, engine, others>>

Pending == [kind |-> "Pending", value |-> NoValue, error |-> NoError]

\* No capability implementation has been evaluated.
NoEval == [op |-> "none"]

\* No second call is running.
NoPeer == [pc |-> "none"]

\* runSimulation has not been called.
NoSim == [pc |-> "none"]

\* The state of one call as executeJsInIsolate is entered, and of the
\* engine before any isolate was made.
\* The state at the start of a call, whatever the snippet.
InitDriver ==
    /\ pc = "newIsolate"
    /\ isolate = "null"
    /\ context = "null"
    /\ jail = {}
    /\ clock = 0
    /\ runStart = -1
    /\ phaseStart = 0
    /\ sn = "idle"
    /\ snValue = NoValue
    /\ calls = <<>>
    /\ outcome = Pending
    /\ settledAt = -1
    /\ teardown = <<>>
    /\ isolateId = 0
    /\ engine = [created |-> 0, disposed |-> {}]
    /\ hostUse = [reached |-> {}, unbound |-> {}]
    /\ rebound = {}
    /\ ev = NoEval
    /\ sim = NoSim

InitCall ==
    /\ jsCode \in [valid : BOOLEAN]
    /\ InitDriver

\* One call, whose teardown calls do not throw.
Init ==
    /\ InitCall
    /\ faults = {}
    /\ peer = NoPeer

Elapsed == clock - phaseStart

\* A teardown that is skipped when the session timed out.
TeardownCallsSkippedOnTimeout ==
    IF outcome'.kind = "TimedOut" THEN <<>>
    ELSE (IF context # "null" THEN <<"release">> ELSE <<>>)
             \o (IF isolate # "null" THEN <<"dispose">> ELSE <<>>)

\* The teardown calls the finally block makes, in order.
TeardownCalls ==
    (IF context # "null" THEN <<"release">> ELSE <<>>)
        \o (IF isolate # "null" THEN <<"dispose">> ELSE <<>>)

\* A teardown call throws: context.release() when it is among the faults,
\* isolate.dispose() when it is (the engine has disposed of the isolate
\* already).
ReleaseThrows == context # "null" /\ "release" \in faults
DisposeThrows == isolate # "null" /\ "dispose" \in faults

\* finally { try { if (context) context.release() } catch (e) { log }
\*           try { if (isolate) isolate.dispose() } catch (e) { log } }
\* runs in the same turn as the return or the throw it follows, and only
\* then does the caller's promise settle.
Finally ==
    /\ teardown' = teardown \o TeardownCalls
    /\ context' = IF context = "live" /\ ~ReleaseThrows THEN "released" ELSE context
    /\ isolate' = IF isolate = "live" THEN "disposed" ELSE isolate
    /\ engine' = IF isolate = "live"
                 THEN [engine EXCEPT !.disposed = @ \cup {isolateId}]
                 ELSE engine
    /\ settledAt' = clock
    /\ pc' = "done"

\* A finally block without its try/catch: what a teardown call throws
\* replaces the value or the error on its way to the caller.
ReportedUnlessTeardownThrows(result) ==
    IF ReleaseThrows \/ DisposeThrows
    THEN [kind |-> "Failed", value |-> NoValue, error |-> "TeardownError"]
    ELSE result

\* What reaches the caller after the finally block: what the try or the
\* catch block produced, for the finally block catches what teardown throws.
Reported(result) == result

\* return result
Return(val) ==
    /\ outcome' = Reported([kind |-> "Completed", value |-> val, error |-> NoError])
    /\ Finally

\* What a snippet can throw: an Error object, or any other value, of which
\* null and undefined are the two that have no properties.
ThrownValues == {Val("error", 0), Null, Undefined}

\* The name under which a value thrown by the snippet shows in an outcome.
ErrorName(thrown) ==
    CASE thrown = Null -> "null"
      [] thrown = Undefined -> "undefined"
      [] OTHER -> "SnippetError"

\* console.error(`... ${error.message}`), the first statement of the catch
\* block: reading a property of null or of undefined throws a TypeError,
\* which leaves the catch block in place of the error that was caught.
Caught(error) ==
    IF error \in {"null", "undefined"} THEN "TypeError" ELSE error

\* catch (error) { console.error(.. error.message); throw error }: the error
\* reaches the caller unchanged when the log line could be written.
\* The engine's timeout error is what the spec calls TimedOut.
Throw(error) ==
    /\ outcome' = Reported([kind |-> IF error = "TimeoutError" THEN "TimedOut" ELSE "Failed",
                            value |-> NoValue, error |-> Caught(error)])
    /\ Finally

\* ------------------------------------------------- executeJsInIsolate: set-up
\* An engine that hands out the isolate it created last, when it has one.
PooledIsolate == IF engine.created > 0 THEN engine.created ELSE 1

\* new ivm.Isolate(...) makes an isolate the engine has not made before.
FreshIsolate == engine.created + 1

\* isolate = new ivm.Isolate({memoryLimit: ISOLATE_MEMORY_LIMIT})
NewIsolate ==
    /\ pc = "newIsolate"
    /\ isolate' = "live"
    /\ isolateId' = FreshIsolate
    /\ engine' = [engine EXCEPT !.created = @ + 1]
    /\ pc' = "createContext"
    /\ UNCHANGED <<others, jsCode, context, jail, clock, runStart, phaseStart, sn,
                   snValue, calls, outcome, settledAt, teardown>>

\* The engine cannot allocate the heap: the constructor throws.
NewIsolateFails ==
    /\ pc = "newIsolate"
    /\ Throw("ResourceError")
    /\ UNCHANGED <<others, isolateId, jsCode, jail, clock, runStart, phaseStart, sn, snValue,
                   calls>>

\* context = await isolate.createContext()
CreateContext ==
    /\ pc = "createContext"
    /\ context' = "live"
    /\ pc' = "setGlobal"
    /\ UNCHANGED <<others, isolateId, engine, jsCode, isolate, jail, clock, runStart, phaseStart, sn,
                   snValue, calls, outcome, settledAt, teardown>>

CreateContextFails ==
    /\ pc = "createContext"
    /\ Throw("ContextError")
    /\ UNCHANGED <<others, isolateId, jsCode, jail, clock, runStart, phaseStart, sn, snValue,
                   calls>>

\* A set-up that also hands the host's fetch into the sandbox.
GlobalNamesWithFetch == {"global", "fetch"}

\* The names on the jail before the capabilities are installed: "global",
\* which refers to the sandbox's own global object.
GlobalNames == {"global"}

\* await jail.set("global", jail.derefInto())
SetGlobal ==
    /\ pc = "setGlobal"
    /\ jail' = GlobalNames
    /\ pc' = "install"
    /\ UNCHANGED <<others, isolateId, engine, jsCode, isolate, context, clock, runStart, phaseStart, sn,
                   snValue, calls, outcome, settledAt, teardown>>

\* The capabilities installed so far, and the next one of the loop.
Installed == jail \cap Caps
NextApi == ApiNames[Cardinality(Installed) + 1]

\* for (const [funcName, funcImpl] of Object.entries(...)) await jail.set(...)
InstallNext ==
    /\ pc = "install"
    /\ jail' = jail \cup {NextApi}
    /\ pc' = IF Cardinality(Installed) + 1 = Len(ApiNames) THEN "compile" ELSE "install"
    /\ UNCHANGED <<others, isolateId, engine, jsCode, isolate, context, clock, runStart, phaseStart, sn,
                   snValue, calls, outcome, settledAt, teardown>>

\* A jail.set (of "global" or of a capability) throws.
InstallFails ==
    /\ pc \in {"setGlobal", "install"}
    /\ Throw("SetError")
    /\ UNCHANGED <<others, isolateId, jsCode, jail, clock, runStart, phaseStart, sn, snValue,
                   calls>>

\* A driver that ignores the failed compilation and goes on to run.
CompileErrorStillRuns ==
    /\ pc' = "run"
    /\ UNCHANGED <<isolate, context, engine, outcome, settledAt, teardown>>

\* compileScript rejects: the error is thrown to catch.
CompileError == Throw("CompileError")

\* const script = await isolate.compileScript(jsCode, ...)
Compile ==
    /\ pc = "compile"
    /\ jsCode.valid
    /\ pc' = "run"
    /\ UNCHANGED <<others, isolateId, engine, jsCode, isolate, context, jail, clock, runStart, phaseStart,
                   sn, snValue, calls, outcome, settledAt, teardown>>

CompileFails ==
    /\ pc = "compile"
    /\ ~jsCode.valid
    /\ CompileError
    /\ UNCHANGED <<others, isolateId, jsCode, jail, clock, runStart, phaseStart, sn, snValue,
                   calls>>

\* ------------------------------------------------------ script.run (line 258)
\* script.run(context, {timeout: SCRIPT_EXECUTION_TIMEOUT, ...}) is called:
\* the engine's timeout for this call starts now.
\* A driver that does not await script.run before calling apply.
RunPhaseSkipped == pc' = "apply"

\* await script.run(...)
RunPhase == pc' = "running"

StartRun ==
    /\ pc = "run"
    /\ RunPhase
    /\ sn' = "sync"
    /\ runStart' = clock
    /\ phaseStart' = clock
    /\ UNCHANGED <<others, isolateId, engine, jsCode, isolate, context, jail, clock, snValue, calls,
                   outcome, settledAt, teardown>>

\* Time passes while the snippet computes or waits for the host.
Tick ==
    /\ \/ pc = "running" /\ sn = "sync"
       \/ pc = "apply" /\ sn \in {"sync", "suspended"}
    /\ Elapsed < SCRIPT_EXECUTION_TIMEOUT
    /\ clock' = clock + TickMs
    /\ UNCHANGED <<others, isolateId, engine, jsCode, pc, isolate, context, jail, runStart, phaseStart,
                   sn, snValue, calls, outcome, settledAt, teardown>>

\* The snippet throws at top level: script.run rejects with its error.
RunSyncThrow ==
    /\ pc = "running"
    /\ sn = "sync"
    /\ Elapsed < SCRIPT_EXECUTION_TIMEOUT
    /\ sn' = "threw"
    /\ \E thrown \in ThrownValues :
           /\ snValue' = thrown
           /\ Throw(ErrorName(thrown))
    /\ UNCHANGED <<others, isolateId, jsCode, jail, clock, runStart, phaseStart, calls>>

\* The synchronous part is still running when the timeout of script.run expires.
RunTimeout ==
    /\ pc = "running"
    /\ sn = "sync"
    /\ Elapsed >= SCRIPT_EXECUTION_TIMEOUT
    /\ sn' = "killed"
    /\ Throw("TimeoutError")
    /\ UNCHANGED <<others, isolateId, jsCode, jail, clock, runStart, phaseStart, snValue, calls>>

\* The timeout promiseRef.apply is given counts from the call of apply.
ApplyStart == phaseStart' = clock

\* The synchronous part ended (the async closure returned its promise):
\* script.run resolves with a Reference and promiseRef.apply is called with
\* a timeout of its own.
RunReturnsReference ==
    /\ pc = "running"
    /\ sn \in {"suspended", "resolved", "rejected"}
    /\ pc' = "apply"
    /\ ApplyStart
    /\ UNCHANGED <<others, isolateId, engine, jsCode, isolate, context, jail, clock, runStart, sn,
                   snValue, calls, outcome, settledAt, teardown>>

\* The snippet was no async closure and script.run has no promise to refer to:
\* if (!(promiseRef instanceof ivm.Reference)) throw new Error(...)
RunReturnsOther ==
    /\ pc = "running"
    /\ sn = "plain"
    /\ Throw("NotPromiseReference")
    /\ UNCHANGED <<others, isolateId, jsCode, jail, clock, runStart, phaseStart, sn, snValue,
                   calls>>


\* ------------------------------------------------- the snippet in the sandbox
\* One capability call: what the call site passed (cap, arg) and the
\* invocation of the implementation it started, whose parameter param is
\* bound to the argument when the async function is entered.
Call(cap, arg) ==
    [cap |-> cap, arg |-> arg, param |-> arg, status |-> "pending",
     underlying |-> "none", how |-> "none", value |-> NoValue, awaited |-> FALSE]

CallIds == 1..Len(calls)
PendingIds == {i \in CallIds : calls[i].status = "pending"}
AwaitedIds == {i \in CallIds : calls[i].awaited}
DeliveredValues == {calls[i].value : i \in {j \in CallIds : calls[j].how = "resolve"}}

\* The snippet is executing (between two suspension points) and the engine
\* call that drives it has not timed out.
SnippetExecuting ==
    /\ isolate = "live"
    /\ pc \in {"running", "apply"}
    /\ sn = "sync"
    /\ Elapsed < SCRIPT_EXECUTION_TIMEOUT

\* The snippet calls a name bound on the jail.  The install loop bound each
\* funcName to its own funcImpl, so the implementation of that name is
\* invoked with these arguments; it runs up to its first await (the fetch
\* for its parameter is under way) and its promise is now pending.
SnippetCall(cap, arg) ==
    /\ SnippetExecuting
    /\ cap \in jail
    /\ cap \notin rebound
    /\ Len(calls) < MaxCalls
    /\ calls' = Append(calls, Call(cap, arg))
    /\ UNCHANGED <<others, isolateId, engine, jsCode, pc, isolate, context, jail, clock, runStart,
                   phaseStart, sn, snValue, outcome, settledAt, teardown>>

\* await (of the promise of one pending call, or of several through
\* Promise.all): the snippet yields until what it awaits has settled.
SnippetAwait ==
    /\ SnippetExecuting
    /\ \E ids \in SUBSET PendingIds \ {{}} :
           calls' = [i \in CallIds |-> [calls[i] EXCEPT !.awaited = i \in ids]]
    /\ sn' = "suspended"
    /\ UNCHANGED <<others, isolateId, engine, jsCode, pc, isolate, context, jail, clock, runStart,
                   phaseStart, snValue, outcome, settledAt, teardown>>

\* await of a promise the snippet made itself (await Promise.resolve(),
\* await new Promise(() => {})): the snippet yields with no capability
\* call pending, and resumes later or never.
SnippetAwaitOwn ==
    /\ SnippetExecuting
    /\ PendingIds = {}
    /\ sn' = "suspended"
    /\ UNCHANGED <<others, isolateId, engine, jsCode, pc, isolate, context,
                   jail, clock, runStart, phaseStart, snValue, calls, outcome,
                   settledAt, teardown>>

\* Implementations that keep their argument in one variable of the module
\* instead of a parameter: a later invocation overwrites it while an earlier
\* one is still awaiting its fetch.
ParameterShared(i) == calls[Len(calls)].param

\* What the implementation of call i reads after its await (ticker,
\* toCurrency in rates[toCurrency], date in historicalDataMap[date]): its own
\* parameters, which are local to the invocation; the module holds no
\* variable that invocations share.
Parameter(i) == calls[i].param

\* The host implementation of call i finishes (its fetch having worked or
\* thrown): it computes its result from its parameters and returns, which
\* settles the promise of this invocation.  The engine hands the settlement
\* of that promise to the call that started the invocation, and the sandbox
\* takes it only while the snippet is suspended.  Calls settle in any
\* order; a call that never settles is one for which this never fires.
HostRespond(i, underlying) ==
    /\ isolate = "live"
    /\ pc \in {"running", "apply"}
    /\ sn = "suspended"
    /\ i \in PendingIds
    /\ LET s == CapabilitySettlement(calls[i].cap, Parameter(i), underlying)
       IN calls' = [calls EXCEPT ![i] =
                        [@ EXCEPT !.status = "delivered", !.underlying = underlying,
                                  !.how = s.how, !.value = s.value]]
    /\ UNCHANGED <<others, isolateId, engine, jsCode, pc, isolate, context, jail, clock, runStart,
                   phaseStart, sn, snValue, outcome, settledAt, teardown>>

\* A bridge that still delivers a settlement after the call has ended.
DeliveredLate(call) ==
    [call EXCEPT !.status = "delivered", !.underlying = "ok", !.how = "resolve",
                 !.value = UnderlyingValue(call.cap, call.arg)]

\* What becomes of a call whose host implementation finishes after the
\* isolate was disposed of: there is no sandbox left to take its
\* settlement, which is dropped.
Discarded(call) == [call EXCEPT !.status = "discarded"]

\* The host implementation of call i finishes after executeJsInIsolate has
\* returned or thrown.
HostRespondLate(i) ==
    /\ pc = "done"
    /\ i \in PendingIds
    /\ calls' = [calls EXCEPT ![i] = Discarded(@)]
    /\ UNCHANGED <<others, isolateId, engine, jsCode, pc, isolate, context,
                   jail, clock, runStart, phaseStart, sn, snValue, outcome,
                   settledAt, teardown>>

\* The awaited promise has settled: the snippet resumes, whatever other
\* calls are still pending.  A Promise.all settles when all its calls have
\* resolved or when the first of them rejects.  An await of a rejected call
\* throws inside the snippet, which has no handler for it.
SnippetResume ==
    /\ isolate = "live"
    /\ pc = "apply"
    /\ sn = "suspended"
    /\ Elapsed < SCRIPT_EXECUTION_TIMEOUT
    /\ LET rejected == {i \in AwaitedIds : calls[i].how = "reject"}
       IN  /\ rejected # {} \/ AwaitedIds \cap PendingIds = {}
           /\ sn' = IF rejected # {} THEN "rejected" ELSE "sync"
           /\ snValue' = IF rejected # {} THEN Val("error", 0) ELSE snValue
    /\ calls' = [i \in CallIds |-> [calls[i] EXCEPT !.awaited = FALSE]]
    /\ UNCHANGED <<others, isolateId, engine, jsCode, pc, isolate, context, jail, clock, runStart,
                   phaseStart, outcome, settledAt, teardown>>

\* return v inside the async closure: its promise resolves to v.
SnippetResolve(v) ==
    /\ SnippetExecuting
    /\ sn' = "resolved"
    /\ snValue' = v
    /\ UNCHANGED <<others, isolateId, engine, jsCode, pc, isolate, context, jail, clock, runStart,
                   phaseStart, calls, outcome, settledAt, teardown>>

\* throw inside the async closure: its promise rejects.
SnippetReject ==
    /\ SnippetExecuting
    /\ sn' = "rejected"
    /\ snValue' \in ThrownValues
    /\ UNCHANGED <<others, isolateId, engine, jsCode, pc, isolate, context, jail, clock, runStart,
                   phaseStart, calls, outcome, settledAt, teardown>>

\* The script is not an async closure: it ends with a plain completion value.
SnippetPlain ==
    /\ SnippetExecuting
    /\ pc = "running"
    /\ sn' = "plain"
    /\ UNCHANGED <<others, isolateId, engine, jsCode, pc, isolate, context, jail, clock, runStart,
                   phaseStart, snValue, calls, outcome, settledAt, teardown>>

\* The snippet assigns to a capability name (getTickerPrice = async () => 1):
\* jail.set made the name an ordinary writable property of the sandbox's
\* global object, so the assignment takes effect.
SnippetRebind(cap) ==
    /\ SnippetExecuting
    /\ cap \in jail
    /\ cap \notin rebound
    /\ rebound' = rebound \cup {cap}
    /\ UNCHANGED <<sim, ev, hostUse, peer, faults, isolateId, engine, jsCode, pc,
                   isolate, context, jail, clock, runStart, phaseStart, sn,
                   snValue, calls, outcome, settledAt, teardown>>

\* The snippet calls a name it has assigned to: its own function runs
\* inside the sandbox and no host implementation is invoked.
SnippetCallRebound(cap, arg) ==
    /\ SnippetExecuting
    /\ cap \in rebound
    /\ Len(calls) < MaxCalls
    /\ calls' = Append(calls, [Call(cap, arg) EXCEPT !.status = "local"])
    /\ UNCHANGED <<others, isolateId, engine, jsCode, pc, isolate, context,
                   jail, clock, runStart, phaseStart, sn, snValue, outcome,
                   settledAt, teardown>>

\* Host facilities a snippet may try to use besides the capabilities: the
\* network, timers, the host process.  (console is no host facility: the
\* engine gives every context a console of its own whose methods do
\* nothing.)
AmbientNames == {"fetch", "setTimeout", "process"}

\* The snippet uses a host name that is no capability (fetch(..),
\* setTimeout(..), process.env): it gets hold of the facility when the name
\* is on the jail; else the use throws a ReferenceError inside the sandbox
\* and the snippet's promise rejects.
SnippetUse(name) ==
    /\ SnippetExecuting
    /\ IF name \in jail
       THEN /\ hostUse' = [hostUse EXCEPT !.reached = @ \cup {name}]
            /\ sn' = sn
       ELSE /\ hostUse' = [hostUse EXCEPT !.unbound = @ \cup {name}]
            /\ sn' = "rejected"
    /\ snValue' = IF name \in jail THEN snValue ELSE Val("error", 0)
    /\ UNCHANGED <<sim, ev, rebound, peer, faults, isolateId, engine, jsCode, pc,
                   isolate, context, jail, clock, runStart, phaseStart,
                   calls, outcome, settledAt, teardown>>

\* ------------------------------------------------ promiseRef.apply (line 268)
\* A driver that reports a falsy result as null (result || null).
ResultFalsyToNull(val) ==
    IF val \in {Undefined, Val("number", 0)} THEN Null ELSE Copy(val)

\* What the driver returns for a resolved value: the copy, as it is.
Result(val) == Copy(val)

\* The promise resolved: result is a copy of the value; return result.
ApplyReturns ==
    /\ pc = "apply"
    /\ sn = "resolved"
    /\ Transferable(snValue)
    /\ Return(Result(snValue))
    /\ UNCHANGED <<others, isolateId, jsCode, jail, clock, runStart, phaseStart, sn, snValue,
                   calls>>

\* The promise resolved to something copy: true cannot copy.
ApplyCopyFails ==
    /\ pc = "apply"
    /\ sn = "resolved"
    /\ ~Transferable(snValue)
    /\ Throw("CopyError")
    /\ UNCHANGED <<others, isolateId, jsCode, jail, clock, runStart, phaseStart, sn, snValue,
                   calls>>

\* The promise rejected: apply throws the snippet's error.
ApplyThrows ==
    /\ pc = "apply"
    /\ sn = "rejected"
    /\ Throw(ErrorName(snValue))
    /\ UNCHANGED <<others, isolateId, jsCode, jail, clock, runStart, phaseStart, sn, snValue,
                   calls>>

\* The promise is still pending when the timeout of apply expires.
ApplyTimeout ==
    /\ pc = "apply"
    /\ sn \in {"sync", "suspended"}
    /\ Elapsed >= SCRIPT_EXECUTION_TIMEOUT
    /\ sn' = "killed"
    /\ Throw("TimeoutError")
    /\ UNCHANGED <<others, isolateId, jsCode, jail, clock, runStart, phaseStart, snValue, calls>>

\* ------------------------------------------------------------ specification
\* The calls a snippet may issue next.  The snippets explored issue their
\* calls in the order in which the API lists its names, and by argument
\* within one name: the driver treats every capability alike, so that
\* another order of the same calls brings no other behaviour.
CallRank ==
    [c \in Caps \X Args |-> 2 * (CHOOSE i \in 1..Len(ApiNames) : ApiNames[i] = c[1]) + c[2]]
NextCalls ==
    IF calls = <<>> THEN Caps \X Args
    ELSE LET last == calls[Len(calls)]
         IN  {c \in Caps \X Args : CallRank[c] >= CallRank[<<last.cap, last.arg>>]}

Next ==
    \/ NewIsolate
    \/ NewIsolateFails
    \/ CreateContext
    \/ CreateContextFails
    \/ SetGlobal
    \/ InstallNext
    \/ InstallFails
    \/ Compile
    \/ CompileFails
    \/ StartRun
    \/ Tick
    \/ RunSyncThrow
    \/ RunTimeout
    \/ RunReturnsReference
    \/ RunReturnsOther
    \/ \E c \in NextCalls : SnippetCall(c[1], c[2])
    \/ SnippetAwait
    \/ \E i \in 1..MaxCalls, underlying \in {"ok", "throws"} : HostRespond(i, underlying)
    \/ SnippetResume
    \/ \E v \in OwnValues \cup DeliveredValues : SnippetResolve(v)
    \/ SnippetReject
    \/ SnippetPlain
    \/ ApplyReturns
    \/ ApplyCopyFails
    \/ ApplyThrows
    \/ ApplyTimeout

Spec == Init /\ [][Next]_vars

\* ------------------------------------------------ what crosses the boundary
\* A value that has crossed the sandbox boundary: into the sandbox or out
\* of it, to whom, and in which form: a copy, or a live reference to the
\* original on the other side.
Crossing(dir, to, what, form) ==
    [dir |-> dir, to |-> to, what |-> what, form |-> form]

\* What has crossed so far, in the form the driver's calls ask for:
\*   jail.set(funcName, new ivm.Reference(funcImpl))    a reference to the
\*       host function, for each capability installed;
\*   script.run(.., {result: {promise, reference: true}})  a reference to
\*       the snippet's promise, held by the driver while it awaits it;
\*   promiseRef.apply(.., {result: {promise, copy: true}})  a copy of the
\*       resolved value, returned to the caller;
\*   the arguments of capability calls, which the snippet hands out of the
\*       sandbox to the host function, and their results, which the host
\*       function hands back into it: primitives and plain data, which the
\*       engine copies.
Crossed ==
    {Crossing("in", "sandbox", cap, "reference") : cap \in Installed}
        \cup {Crossing("out", "host", "argument", "copy") :
                  i \in {j \in CallIds : calls[j].status # "local"}}
        \cup {Crossing("in", "sandbox", "return value", "copy") :
                  i \in {j \in CallIds : calls[j].status = "delivered"}}
        \cup (IF pc = "apply"
              THEN {Crossing("out", "driver", "promiseRef", "reference")} ELSE {})
        \cup (IF pc = "done" /\ outcome.kind = "Completed"
              THEN {Crossing("out", "caller", "result", "copy")} ELSE {})

\* ------------------------------------------------- one session, seen closely
\* The steps of the driver and of a snippet that calls no capability but
\* may await promises of its own.
SoloNext ==
    \/ NewIsolate
    \/ NewIsolateFails
    \/ CreateContext
    \/ CreateContextFails
    \/ SetGlobal
    \/ InstallNext
    \/ InstallFails
    \/ Compile
    \/ CompileFails
    \/ StartRun
    \/ Tick
    \/ RunSyncThrow
    \/ RunTimeout
    \/ RunReturnsReference
    \/ RunReturnsOther
    \/ \E v \in OwnValues \cup DeliveredValues : SnippetResolve(v)
    \/ SnippetReject
    \/ SnippetPlain
    \/ SnippetAwaitOwn
    \/ SnippetResume
    \/ ApplyReturns
    \/ ApplyCopyFails
    \/ ApplyThrows
    \/ ApplyTimeout

\* The capability the closely watched snippet calls.
WatchedCalls == {"getTickerPrice"} \X {1}

\* An engine that lets the snippet's promise resolve to null when the heap
\* is exhausted.
OverLimitIgnored == Return(Null)

\* The isolate was created with memoryLimit: ISOLATE_MEMORY_LIMIT.  A snippet
\* that allocates past it is ended by the engine, and the engine call that
\* drives it (script.run or promiseRef.apply) rejects.
OverLimit == Throw("ResourceError")

\* The snippet allocates past the memory limit.
OutOfMemory ==
    /\ SnippetExecuting
    /\ sn' = "oom"
    /\ OverLimit
    /\ UNCHANGED <<others, isolateId, jsCode, jail, clock, runStart, phaseStart, snValue, calls>>

\* One session whose snippet calls one capability and may also use other
\* host names.
SessionNext ==
    \/ SoloNext
    \/ \E c \in WatchedCalls : SnippetCall(c[1], c[2])
    \/ SnippetAwait
    \/ \E i \in 1..MaxCalls, underlying \in {"ok", "throws"} : HostRespond(i, underlying)
    \/ \E name \in AmbientNames : SnippetUse(name)
    \/ \E c \in WatchedCalls : SnippetRebind(c[1])
    \/ \E c \in WatchedCalls : SnippetCallRebound(c[1], c[2])
    \/ \E i \in 1..MaxCalls : HostRespondLate(i)
    \/ OutOfMemory

\* One call, with any of its teardown calls throwing.
InitSession ==
    /\ InitCall
    /\ faults \in SUBSET {"release", "dispose"}
    /\ peer = NoPeer

SpecSession == InitSession /\ [][SessionNext]_vars

\* ------------------------------------------------------ two concurrent calls
\* The variables executeJsInIsolate holds for one call (its locals and the
\* sandbox they refer to).
ThisSession ==
    [jsCode |-> jsCode, pc |-> pc, isolate |-> isolate, context |-> context,
     jail |-> jail, clock |-> clock, runStart |-> runStart,
     phaseStart |-> phaseStart, sn |-> sn, snValue |-> snValue,
     calls |-> calls, outcome |-> outcome, settledAt |-> settledAt,
     teardown |-> teardown, isolateId |-> isolateId]

\* Two calls of executeJsInIsolate have been made; neither has started.
InitPair ==
    /\ InitCall
    /\ faults = {}
    /\ \E code \in [valid : BOOLEAN] : peer = [ThisSession EXCEPT !.jsCode = code]

\* The event loop turns to the other call: its next step is taken next.
\* The two calls share the engine and nothing else.
Switch ==
    /\ peer.pc # "none"
    /\ peer' = ThisSession
    /\ jsCode' = peer.jsCode
    /\ pc' = peer.pc
    /\ isolate' = peer.isolate
    /\ context' = peer.context
    /\ jail' = peer.jail
    /\ clock' = peer.clock
    /\ runStart' = peer.runStart
    /\ phaseStart' = peer.phaseStart
    /\ sn' = peer.sn
    /\ snValue' = peer.snValue
    /\ calls' = peer.calls
    /\ outcome' = peer.outcome
    /\ settledAt' = peer.settledAt
    /\ teardown' = peer.teardown
    /\ isolateId' = peer.isolateId
    /\ UNCHANGED <<engine, faults, hostUse, rebound, ev, sim>>

PairNext ==
    \/ SoloNext
    \/ Switch

SpecPair == InitPair /\ [][PairNext]_vars

\* What a call that has ended reports, read off where its run stopped.
ExpectedOutcome(s) ==
    CASE s.sn = "resolved" /\ Transferable(s.snValue) ->
             [kind |-> "Completed", value |-> s.snValue, error |-> NoError]
      [] s.sn = "resolved" /\ ~Transferable(s.snValue) ->
             [kind |-> "Failed", value |-> NoValue, error |-> "CopyError"]
      [] s.sn \in {"threw", "rejected"} ->
             [kind |-> "Failed", value |-> NoValue, error |-> Caught(ErrorName(s.snValue))]
      [] s.sn = "plain" ->
             [kind |-> "Failed", value |-> NoValue, error |-> "NotPromiseReference"]
      [] s.sn = "killed" ->
             [kind |-> "TimedOut", value |-> NoValue, error |-> "TimeoutError"]
      [] s.sn = "oom" ->
             [kind |-> "Failed", value |-> NoValue, error |-> "ResourceError"]
      [] s.sn = "idle" /\ s.isolate = "null" ->
             [kind |-> "Failed", value |-> NoValue, error |-> "ResourceError"]
      [] s.sn = "idle" /\ s.isolate # "null" /\ s.context = "null" ->
             [kind |-> "Failed", value |-> NoValue, error |-> "ContextError"]
      [] s.sn = "idle" /\ s.context # "null" /\ s.jail # Caps \cup {"global"} ->
             [kind |-> "Failed", value |-> NoValue, error |-> "SetError"]
      [] OTHER ->
             [kind |-> "Failed", value |-> NoValue, error |-> "CompileError"]

\* The teardown calls a call that has ended has made.
ExpectedTeardown(s) ==
    (IF s.context # "null" THEN <<"release">> ELSE <<>>)
        \o (IF s.isolate # "null" THEN <<"dispose">> ELSE <<>>)


\* ------------------------------------------------ Number (IEEE 754 binary64)
\* A natural number of any size: its digits in base 2^14, the least
\* significant first and the most significant never 0; zero is <<>>.
Base == 2 ^ 14

RECURSIVE Limbs(_)
Limbs(n) == IF n = 0 THEN <<>> ELSE <<n % Base>> \o Limbs(n \div Base)

RECURSIVE IntOf(_)
IntOf(a) == IF a = <<>> THEN 0 ELSE a[1] + Base * IntOf(Tail(a))

RECURSIVE Trim(_)
Trim(a) == IF a # <<>> /\ a[Len(a)] = 0 THEN Trim(SubSeq(a, 1, Len(a) - 1)) ELSE a

BitLength(a) ==
    IF a = <<>> THEN 0
    ELSE 14 * (Len(a) - 1) + Cardinality({k \in 0..13 : 2 ^ k <= a[Len(a)]})

\* a < b
BigLess(a, b) ==
    IF Len(a) # Len(b) THEN Len(a) < Len(b)
    ELSE \E i \in 1..Len(a) : a[i] < b[i] /\ \A j \in i + 1..Len(a) : a[j] = b[j]

\* a + sign * (b + c) for sign 1, or sign -1 and a >= b + c
RECURSIVE BigSum(_, _, _, _)
BigSum(a, b, c, sign) ==
    IF a = <<>> /\ b = <<>> THEN Limbs(c)
    ELSE LET t == (IF a = <<>> THEN 0 ELSE a[1]) + sign * ((IF b = <<>> THEN 0 ELSE b[1]) + c)
         IN  <<t % Base>> \o BigSum(IF a = <<>> THEN a ELSE Tail(a),
                                    IF b = <<>> THEN b ELSE Tail(b),
                                    IF sign = 1 THEN t \div Base ELSE IF t < 0 THEN 1 ELSE 0,
                                    sign)

BigPlus(a, b) == BigSum(a, b, 0, 1)
BigMinus(a, b) == Trim(BigSum(a, b, 0, -1))

\* a * k + c for 0 < k <= Base
RECURSIVE BigTimesSmall(_, _, _)
BigTimesSmall(a, k, c) ==
    IF a = <<>> THEN Limbs(c)
    ELSE LET t == a[1] * k + c
         IN  <<t % Base>> \o BigTimesSmall(Tail(a), k, t \div Base)

\* a * b
RECURSIVE BigTimes(_, _)
BigTimes(a, b) ==
    IF a = <<>> \/ b = <<>> THEN <<>>
    ELSE LET high == BigTimes(a, Tail(b))
         IN  BigPlus(IF b[1] = 0 THEN <<>> ELSE BigTimesSmall(a, b[1], 0),
                     IF high = <<>> THEN <<>> ELSE <<0>> \o high)

\* a * 2^s
ShiftLeft(a, s) ==
    LET bits == s % 14
        wide == [i \in 1..Len(a) + 1 |->
                    (IF i <= Len(a) THEN (a[i] * 2 ^ bits) % Base ELSE 0)
                        + (IF i > 1 THEN a[i - 1] \div 2 ^ (14 - bits) ELSE 0)]
    IN  IF a = <<>> THEN <<>> ELSE [i \in 1..s \div 14 |-> 0] \o Trim(wide)

\* a / 2^s: its integer part q, and whether there is more to it
ShiftRight(a, s) ==
    LET bits == s % 14
        dropped == IF s \div 14 < Len(a) THEN s \div 14 ELSE Len(a)
        high == SubSeq(a, dropped + 1, Len(a))
        q == [i \in 1..Len(high) |->
                 high[i] \div 2 ^ bits
                     + (IF i < Len(high) THEN (high[i + 1] % 2 ^ bits) * 2 ^ (14 - bits) ELSE 0)]
    IN  [q |-> IF high = <<>> THEN <<>> ELSE Trim(q),
         more |-> \/ \E i \in 1..dropped : a[i] # 0
                  \/ high # <<>> /\ high[1] % 2 ^ bits # 0]

\* The next binary digits of the quotient of r by b, for r < b, as a number q,
\* and the remainder r left.
RECURSIVE QuotientLimb(_, _, _)
QuotientLimb(r, b, digits) ==
    IF digits = 1
    THEN LET twice == ShiftLeft(r, 1)
         IN  IF BigLess(twice, b) THEN [q |-> 0, r |-> twice]
             ELSE [q |-> 1, r |-> BigMinus(twice, b)]
    ELSE LET h == digits \div 2
             high == QuotientLimb(r, b, digits - h)
             low == QuotientLimb(high.r, b, h)
         IN  [q |-> high.q * 2 ^ h + low.q, r |-> low.r]

\* The next count digits of base 2^14 of that quotient, the most significant
\* first, and the remainder left.
RECURSIVE QuotientLimbs(_, _, _)
QuotientLimbs(r, b, count) ==
    IF count = 0 THEN [q |-> <<>>, r |-> r]
    ELSE LET first == QuotientLimb(r, b, 14)
             rest == QuotientLimbs(first.r, b, count - 1)
         IN  [q |-> <<first.q>> \o rest.q, r |-> rest.r]

\* The sequence s, last element first.
Reverse(s) == IF s = <<>> THEN <<>> ELSE <<>> \o [i \in 1..Len(s) |-> s[Len(s) + 1 - i]]

\* A Number: (-1)^neg * m * 2^e with m of 53 binary digits; zero has m = <<>>.
\* (The values met here are far from the subnormal range and from overflow.)
Zero == [neg |-> FALSE, m |-> <<>>, e |-> 0]

\* The Number nearest to n * 2^e (or, with more, to a value strictly between
\* n * 2^e and (n + 1) * 2^e, n of 54 digits at least): round to nearest,
\* ties to even.
Nearest(neg, n, e, more) ==
    LET len == BitLength(n)
        cut == ShiftRight(n, len - 54)
        kept == ShiftRight(cut.q, 1).q
        up == cut.q[1] % 2 = 1 /\ (more \/ cut.more \/ kept[1] % 2 = 1)
        m == IF up THEN BigPlus(kept, <<1>>) ELSE kept
    IN  IF n = <<>> THEN Zero
        ELSE IF len <= 53
        THEN [neg |-> neg, m |-> ShiftLeft(n, 53 - len), e |-> e - (53 - len)]
        ELSE IF BitLength(m) = 54
        THEN [neg |-> neg, m |-> ShiftRight(m, 1).q, e |-> e + len - 52]
        ELSE [neg |-> neg, m |-> m, e |-> e + len - 53]

Negated(x) == IF x.m = <<>> THEN x ELSE [x EXCEPT !.neg = ~@]

\* x * y
Product(x, y) ==
    IF x.m = <<>> \/ y.m = <<>> THEN Zero
    ELSE Nearest(x.neg # y.neg, BigTimes(x.m, y.m), x.e + y.e, FALSE)

\* x / y for y other than zero
Quotient(x, y) ==
    LET fits == ~BigLess(x.m, y.m)
        digits == QuotientLimbs(IF fits THEN BigMinus(x.m, y.m) ELSE x.m, y.m, 4)
    IN  IF x.m = <<>> THEN Zero
        ELSE Nearest(x.neg # y.neg, Trim(Reverse(digits.q) \o <<IF fits THEN 1 ELSE 0>>),
                     x.e - y.e - 56, digits.r # <<>>)

\* x + y
Sum(x, y) ==
    IF x.m = <<>> THEN y
    ELSE IF y.m = <<>> THEN x
    ELSE LET e == IF x.e < y.e THEN x.e ELSE y.e
             a == ShiftLeft(x.m, x.e - e)
             b == ShiftLeft(y.m, y.e - e)
         IN  IF x.neg = y.neg THEN Nearest(x.neg, BigPlus(a, b), e, FALSE)
             ELSE IF BigLess(a, b) THEN Nearest(y.neg, BigMinus(b, a), e, FALSE)
             ELSE Nearest(x.neg, BigMinus(a, b), e, FALSE)

Difference(x, y) == Sum(x, Negated(y))
Less(x, y) == Difference(x, y).neg

\* The Number a decimal literal denotes, n / d for d a power of ten up to
\* 10^7: the Number nearest to it.
Number(n, d) ==
    LET a == IF n < 0 THEN -n ELSE n
        digits == QuotientLimbs(Limbs(a % d), Limbs(d), 6)
    IN  Nearest(n < 0, Trim(Reverse(digits.q) \o Limbs(a \div d)), -84, digits.r # <<>>)

\* x.toFixed(digits) for x >= 0, as the integer n of the string: n / 10^digits
\* is as close to x as possible, the larger n when two are as close.
Fixed(x, digits) ==
    LET n == BigTimes(x.m, Limbs(10 ^ digits))
    IN  IF x.e >= 0 THEN IntOf(ShiftLeft(n, x.e))
        ELSE (IntOf(ShiftRight(n, -x.e - 1).q) + 1) \div 2


\* ------------------------------------------ host capabilities: what they compute
\* Numbers handed to toFixed carry one decimal digit more than the precision
\* the code rounds to: a price is held in thousandths and rounded to
\* hundredths (digits = 2), a rate is held in units of 10^-7 and rounded to
\* 10^-6 (digits = 6).
\* parseFloat(x.toFixed(digits)): x is the Number nearest to the decimal, and
\* toFixed rounds the exact value of that Number, which for a decimal ending
\* in 5 lies a little above or below the half.
toFixed(x, digits) == 10 * Fixed(Number(x, 10 ^ (digits + 1)), digits)

\* Current prices a quote can carry, in thousandths.
QuotePrices == {150250, 189255, 189256}
\* Close prices, in thousandths.
ClosePrices == {150255, 150256}
\* What a rate table can hold under one currency: nothing, a string, or a
\* number (in units of 10^-7).
RateEntries == {Undefined, Val("string", 0), Val("number", 9200000),
                Val("number", 9213456), Val("number", 9213465)}

\* toFixed of the numbers the provider's answers carry, computed once.
RoundedPrices == [x \in QuotePrices \cup ClosePrices |-> toFixed(x, 2)]
RoundedRates == [x \in {entry.v : entry \in {e \in RateEntries : e.t = "number"}} |-> toFixed(x, 6)]
RoundedPrice(x) == IF x \in DOMAIN RoundedPrices THEN RoundedPrices[x] ELSE toFixed(x, 2)
RoundedRate(x) == IF x \in DOMAIN RoundedRates THEN RoundedRates[x] ELSE toFixed(x, 6)

IsNumber(val) == val.t = "number"

\* How an async function settles.
Resolve(val) == [how |-> "resolve", value |-> val]
Reject(error) == [how |-> "reject", value |-> Val("error", error)]


\* What the provider's /quote endpoint can answer: the request fails
\* (makeFinnhubRequest throws), or a body whose field c is absent, null, a
\* string or a number.  For a symbol it does not know the provider answers
\* 200 with the all-zero quote {c: 0, d: null, dp: null, h: 0, ...}.
QuoteBodies ==
    {Undefined, Null, Val("string", 0), Val("number", 0)}
        \cup {Val("number", p) : p \in QuotePrices}
QuoteResponses ==
    {[fails |-> TRUE, c |-> Undefined]} \cup [fails : {FALSE}, c : QuoteBodies]

\* The answers the provider gives for a ticker it does not recognise.
UnknownTickerResponses ==
    {r \in QuoteResponses : r.fails \/ ~IsNumber(r.c) \/ r.c = Val("number", 0)}

\* fetchFinnhubQuote: the request's failure propagates; a numeric c is
\* rounded to two decimals and returned, anything else gives null.
fetchFinnhubQuote(response) ==
    IF response.fails THEN Reject("RequestError")
    ELSE IF IsNumber(response.c)
         THEN Resolve(Val("number", RoundedPrice(response.c.v)))
         ELSE Resolve(Null)

\* getTickerPrice: try { return await fetchFinnhubQuote(ticker) }
\*                 catch { return null }
getTickerPrice(response) ==
    LET quote == fetchFinnhubQuote(response)
    IN  IF quote.how = "reject" THEN Resolve(Null) ELSE quote

\* One evaluation of getTickerPrice on the host.
EvalGetTickerPrice ==
    /\ ev.op = "none"
    /\ \E response \in QuoteResponses :
          ev' = [op |-> "getTickerPrice", response |-> response,
                 settlement |-> getTickerPrice(response)]
    /\ UNCHANGED <<driverVars, isolateId, engine, hostUse, rebound, peer, faults, sim>>

\* ----------------------------------------------------------------- dates
\* A 'yyyy-MM-dd' string is the record [y, m, d] of its three fields; a Date
\* at local midnight is the number of days since 2024-01-01, a Monday.
DateStr(y, m, d) == [y |-> y, m |-> m, d |-> d]

IsLeapYear(y) == (y % 4 = 0 /\ y % 100 # 0) \/ y % 400 = 0
DaysInYear(y) == IF IsLeapYear(y) THEN 366 ELSE 365
DaysInMonth(y, m) ==
    IF m = 2 THEN (IF IsLeapYear(y) THEN 29 ELSE 28)
    ELSE IF m \in {4, 6, 9, 11} THEN 30 ELSE 31

RECURSIVE DaysBeforeYear(_)
DaysBeforeYear(y) ==
    IF y = 2024 THEN 0
    ELSE IF y > 2024 THEN DaysBeforeYear(y - 1) + DaysInYear(y - 1)
         ELSE DaysBeforeYear(y + 1) - DaysInYear(y)

RECURSIVE DaysBeforeMonth(_, _)
DaysBeforeMonth(y, m) ==
    IF m <= 1 THEN 0 ELSE DaysBeforeMonth(y, m - 1) + DaysInMonth(y, m - 1)

\* parseISO('yyyy-MM-dd'): the Date at local midnight of that day.
parseISO(str) == DaysBeforeYear(str.y) + DaysBeforeMonth(str.y, str.m) + str.d - 1

RECURSIVE FormatFrom(_, _, _)
FormatFrom(y, m, rest) ==
    IF rest < 0 THEN FormatFrom(y - 1, 1, rest + DaysInYear(y - 1))
    ELSE IF rest >= DaysInYear(y) /\ m = 1 THEN FormatFrom(y + 1, 1, rest - DaysInYear(y))
    ELSE IF rest >= DaysInMonth(y, m) THEN FormatFrom(y, m + 1, rest - DaysInMonth(y, m))
    ELSE DateStr(y, m, rest + 1)

\* format(date, "yyyy-MM-dd")
format(date) == FormatFrom(2024, 1, date)

\* a.localeCompare(b) on 'yyyy-MM-dd' strings: the fields are zero-padded,
\* so the strings order as their (year, month, day) triples.
localeCompare(a, b) ==
    IF a = b THEN 0
    ELSE IF a.y < b.y \/ (a.y = b.y /\ (a.m < b.m \/ (a.m = b.m /\ a.d < b.d)))
         THEN -1 ELSE 1

addDays(date, amount) == date + amount
\* date.getDay(): 0 is Sunday, 6 is Saturday.
getDay(date) == (date + 1) % 7
\* An isWeekend that takes Sunday only.
isWeekendSundayOnly(date) == getDay(date) = 0
isWeekend(date) == getDay(date) \in {0, 6}

\* --------------------------------------------------------- getExchangeRate
Currencies == {"EUR", "GBP"}
\* What the provider's /forex/rates endpoint can answer: the request
\* fails, a body without a quote object, or a body with a rate table.
ForexResponses ==
    {[fails |-> TRUE, quote |-> Null], [fails |-> FALSE, quote |-> Null]}
        \cup {[fails |-> FALSE, quote |-> Val("table", table)] :
                 table \in [Currencies -> RateEntries]}

\* fetchFinnhubForexRates: the quote object when there is one, null when
\* there is none and null when the request failed (it catches).
fetchFinnhubForexRates(response) ==
    IF response.fails THEN Resolve(Null)
    ELSE IF response.quote.t = "table" THEN Resolve(response.quote)
         ELSE Resolve(Null)

\* A getExchangeRate that hands back rates[toCurrency] without looking at it.
getExchangeRateUnchecked(response, toCurrency) ==
    LET rates == fetchFinnhubForexRates(response)
    IN  IF rates.how = "reject" \/ rates.value.t # "table" THEN Resolve(Null)
        ELSE Resolve(rates.value.v[toCurrency])

\* getExchangeRate: rates && typeof rates[toCurrency] === "number"
\*   ? parseFloat(rates[toCurrency].toFixed(6)) : null; catch { return null }
getExchangeRate(response, toCurrency) ==
    LET rates == fetchFinnhubForexRates(response)
    IN  IF rates.how = "reject" THEN Resolve(Null)
        ELSE IF rates.value.t = "table" /\ IsNumber(rates.value.v[toCurrency])
             THEN Resolve(Val("number", RoundedRate(rates.value.v[toCurrency].v)))
             ELSE Resolve(Null)

EvalGetExchangeRate ==
    /\ ev.op = "none"
    /\ \E response \in ForexResponses, toCurrency \in Currencies :
          ev' = [op |-> "getExchangeRate", response |-> response,
                 toCurrency |-> toCurrency,
                 settlement |-> getExchangeRate(response, toCurrency)]
    /\ UNCHANGED <<driverVars, isolateId, engine, hostUse, rebound, peer, faults, sim>>

\* ----------------------------------------------------------------- candles
\* Most candles in one /stock/candle answer.
MaxCandles == 3
\* The candles' timestamps fall in the half-days from 2024-02-29 00:00 on.
MaxHalfDays == 3
\* Unix timestamps are counted in seconds from 2024-01-01 00:00 local time.
Timestamps == {(2 * 59 + k) * 43200 : k \in 0..MaxHalfDays}

\* fromUnixTime(t): only the calendar day the instant falls on is used.
fromUnixTime(t) == t \div 86400

SeqsUpTo(S, n) == UNION {[1..k -> S] : k \in 0..n}

\* What the provider's /stock/candle endpoint can answer: the request fails,
\* or a body with a status, timestamps t and close prices c of equal length.
CandleResponses ==
    {[fails |-> TRUE, s |-> "error", t |-> <<>>, c |-> <<>>]}
        \cup {[fails |-> FALSE, s |-> s, t |-> t, c |-> c] :
                 s \in {"ok", "no_data", "error"},
                 t \in SeqsUpTo(Timestamps, MaxCandles),
                 c \in SeqsUpTo(ClosePrices, MaxCandles)}

WellFormed(response) == Len(response.t) = Len(response.c)

\* historicalData[dateStr] = price on an object held as its entries in
\* insertion order: an existing key keeps its place and takes the new value.
SetKey(entries, date, price) ==
    IF \E i \in 1..Len(entries) : entries[i].date = date
    THEN [i \in 1..Len(entries) |->
             IF entries[i].date = date THEN [date |-> date, price |-> price]
             ELSE entries[i]]
    ELSE Append(entries, [date |-> date, price |-> price])

RECURSIVE CandleLoop(_, _, _)
CandleLoop(entries, data, i) ==
    IF i > Len(data.t) THEN entries
    ELSE CandleLoop(SetKey(entries, format(fromUnixTime(data.t[i])),
                           Val("number", RoundedPrice(data.c[i]))),
                    data, i + 1)

\* fetchFinnhubCandles: {} on no_data or no timestamps, throws on any other
\* status than ok, else the map from each candle's day to its rounded close.
fetchFinnhubCandles(response) ==
    IF response.fails THEN Reject("RequestError")
    ELSE IF response.s = "no_data" \/ Len(response.t) = 0
         THEN Resolve(Val("map", <<>>))
         ELSE IF response.s # "ok" THEN Reject("StatusError")
              ELSE Resolve(Val("map", CandleLoop(<<>>, response, 1)))

\* historicalDataMap[date]
Lookup(entries, date) ==
    IF \E i \in 1..Len(entries) : entries[i].date = date
    THEN entries[CHOOSE i \in 1..Len(entries) : entries[i].date = date].price
    ELSE Undefined

\* ------------------------------------------------------- getHistoricalData
\* A comparator that orders the entries by descending date.
byDateDescending(a, b) == localeCompare(b.date, a.date)
\* (a, b) => a.date.localeCompare(b.date)
byDate(a, b) == localeCompare(a.date, b.date)

\* Array.prototype.sort with a comparator: a stable sort.
RECURSIVE InsertSorted(_, _, _)
InsertSorted(sorted, x, i) ==
    IF i > Len(sorted) THEN Append(sorted, x)
    ELSE IF byDate(x, sorted[i]) < 0
         THEN SubSeq(sorted, 1, i - 1) \o <<x>> \o SubSeq(sorted, i, Len(sorted))
         ELSE InsertSorted(sorted, x, i + 1)

RECURSIVE sort(_, _)
sort(entries, n) ==
    IF n = 0 THEN <<>> ELSE InsertSorted(sort(entries, n - 1), entries[n], 1)

\* getHistoricalData: Object.entries(map).map(..).sort(byDate); catch { [] }
getHistoricalData(response) ==
    LET historicalDataMap == fetchFinnhubCandles(response)
    IN  IF historicalDataMap.how = "reject" THEN Resolve(Val("list", <<>>))
        ELSE Resolve(Val("list", sort(historicalDataMap.value.v,
                                      Len(historicalDataMap.value.v))))

EvalGetHistoricalData ==
    /\ ev.op = "none"
    /\ \E response \in CandleResponses :
          /\ WellFormed(response)
          /\ ev' = [op |-> "getHistoricalData", response |-> response,
                    settlement |-> getHistoricalData(response)]
    /\ UNCHANGED <<driverVars, isolateId, engine, hostUse, rebound, peer, faults, sim>>

\* ---------------------------------------------------------- getPriceOnDate
\* The dates a snippet asks for: 2024-02-27 .. 2024-03-02.
RequestDates == {format(day) : day \in 57..61}

\* getPriceOnDate: price = historicalDataMap[date];
\*   typeof price === "number" ? price : null; catch { return null }
getPriceOnDate(response, date) ==
    LET historicalDataMap == fetchFinnhubCandles(response)
    IN  IF historicalDataMap.how = "reject" THEN Resolve(Null)
        ELSE LET price == Lookup(historicalDataMap.value.v, date)
             IN  IF IsNumber(price) THEN Resolve(price) ELSE Resolve(Null)

EvalGetPriceOnDate ==
    /\ ev.op = "none"
    /\ \E response \in CandleResponses, date \in RequestDates :
          /\ WellFormed(response)
          /\ ev' = [op |-> "getPriceOnDate", response |-> response,
                    date |-> date,
                    settlement |-> getPriceOnDate(response, date)]
    /\ UNCHANGED <<driverVars, isolateId, engine, hostUse, rebound, peer, faults, sim>>

\* ---------------------------------------------------- findLastEarningsDate
\* Most records in one /calendar/earnings answer.
MaxEarnings == 2

\* What the provider's /calendar/earnings endpoint can answer: the request
\* fails, a body without an earningsCalendar array, or a body with one.
EarningsResponses ==
    {[fails |-> TRUE, isArray |-> FALSE, earningsCalendar |-> <<>>],
     [fails |-> FALSE, isArray |-> FALSE, earningsCalendar |-> <<>>]}
        \cup {[fails |-> FALSE, isArray |-> TRUE, earningsCalendar |-> e] :
                 e \in SeqsUpTo([date : RequestDates], MaxEarnings)}

\* fetchFinnhubEarningsCalendar: the array, [] when there is none.
fetchFinnhubEarningsCalendar(response) ==
    IF response.fails THEN Reject("RequestError")
    ELSE IF response.isArray THEN Resolve(response.earningsCalendar)
         ELSE Resolve(<<>>)

\* startOfDay(date) of date-fns: a Date at local midnight is its own start.
startOfDay(date) == date

\* earnings.filter((e) => startOfDay(parseISO(e.date)) < beforeDate)
RECURSIVE filterBefore(_, _, _)
filterBefore(earnings, beforeDate, i) ==
    IF i > Len(earnings) THEN <<>>
    ELSE (IF startOfDay(parseISO(earnings[i].date)) < beforeDate
          THEN <<earnings[i]>> ELSE <<>>)
             \o filterBefore(earnings, beforeDate, i + 1)

\* The body of the try block, were startOfDay bound: the latest record
\* strictly before beforeDate, null when there is none.
LastEarningsBefore(response, beforeDateStr) ==
    LET beforeDate == startOfDay(parseISO(beforeDateStr))
        earnings == fetchFinnhubEarningsCalendar(response)
    IN  IF earnings.how = "reject" THEN Resolve(Null)
        ELSE IF Len(earnings.value) = 0 THEN Resolve(Null)
             ELSE LET past == filterBefore(earnings.value, beforeDate, 1)
                      pastEarnings == Reverse(sort(past, Len(past)))
                  IN  IF Len(pastEarnings) > 0
                      THEN Resolve(Val("string", pastEarnings[1].date))
                      ELSE Resolve(Null)

\* findLastEarningsDate: the first statement of the try block calls
\* startOfDay, which the module does not import: the call throws a
\* ReferenceError, the catch block logs it and returns null.
findLastEarningsDate(response, beforeDateStr) ==
    IF "startOfDay" \notin Imports THEN Resolve(Null)
    ELSE LastEarningsBefore(response, beforeDateStr)

EvalFindLastEarningsDate ==
    /\ ev.op = "none"
    /\ \E response \in EarningsResponses, beforeDateStr \in RequestDates :
          ev' = [op |-> "findLastEarningsDate", response |-> response,
                 beforeDateStr |-> beforeDateStr,
                 settlement |-> findLastEarningsDate(response, beforeDateStr)]
    /\ UNCHANGED <<driverVars, isolateId, engine, hostUse, rebound, peer, faults, sim>>

\* ------------------------------------------------- getDateAfterTradingDays
\* The start dates run from 2024-02-19, a Monday, for MaxStartDays days more.
MaxStartDays == 13
StartDates == {format(49 + k) : k \in 0..MaxStartDays}
\* The numbers of trading days asked for run from -1 to MaxTradingDays.
MaxTradingDays == 6

\* A safety break that already triggers on the last day it should allow.
SafetyBreakTight(daysAdded, tradingDays) ==
    daysAdded >= tradingDays * 3 /\ tradingDays > 0

\* if (daysAdded > tradingDays * 3 && tradingDays > 0)
SafetyBreak(daysAdded, tradingDays) ==
    daysAdded > tradingDays * 3 /\ tradingDays > 0

\* while (tradingDaysCounted < tradingDays) { currentDate = addDays(.., 1);
\*   daysAdded++; if (!isWeekend(currentDate)) tradingDaysCounted++;
\*   if (daysAdded > tradingDays * 3 && tradingDays > 0) return null }
\* return format(currentDate, "yyyy-MM-dd")
RECURSIVE TradingDayLoop(_, _, _, _)
TradingDayLoop(currentDate, daysAdded, tradingDaysCounted, tradingDays) ==
    IF tradingDaysCounted >= tradingDays
    THEN Resolve(Val("string", format(currentDate)))
    ELSE LET next == addDays(currentDate, 1)
             added == daysAdded + 1
             counted == IF ~isWeekend(next) THEN tradingDaysCounted + 1
                        ELSE tradingDaysCounted
         IN  IF SafetyBreak(added, tradingDays)
             THEN Resolve(Null)
             ELSE TradingDayLoop(next, added, counted, tradingDays)

\* A getDateAfterTradingDays that adds calendar days and then steps over a
\* weekend it lands on.
getDateAfterCalendarDays(startDateStr, tradingDays) ==
    IF tradingDays < 0 THEN Resolve(Null)
    ELSE IF tradingDays = 0 THEN Resolve(Val("string", startDateStr))
         ELSE LET day == addDays(parseISO(startDateStr), tradingDays)
                  landed == IF getDay(day) = 6 THEN addDays(day, 2)
                            ELSE IF getDay(day) = 0 THEN addDays(day, 1)
                                 ELSE day
              IN  Resolve(Val("string", format(landed)))

\* getDateAfterTradingDays: null for a negative count, the start string
\* itself for zero, else the loop's result.
getDateAfterTradingDays(startDateStr, tradingDays) ==
    IF tradingDays < 0 THEN Resolve(Null)
    ELSE IF tradingDays = 0 THEN Resolve(Val("string", startDateStr))
         ELSE TradingDayLoop(parseISO(startDateStr), 0, 0, tradingDays)

EvalGetDateAfterTradingDays ==
    /\ ev.op = "none"
    /\ \E startDateStr \in StartDates, tradingDays \in -1..MaxTradingDays :
          ev' = [op |-> "getDateAfterTradingDays",
                 startDateStr |-> startDateStr, tradingDays |-> tradingDays,
                 settlement |-> getDateAfterTradingDays(startDateStr, tradingDays)]
    /\ UNCHANGED <<driverVars, isolateId, engine, hostUse, rebound, peer, faults, sim>>

\* getDateAfterTradingDays(await getDateAfterTradingDays(d, a), b): a null
\* from the first call makes the second return null, at once or through
\* its catch block (parseISO throws on null).
TwoSteps(startDateStr, a, b) ==
    LET first == getDateAfterTradingDays(startDateStr, a)
    IN  IF first.value = Null THEN Resolve(Null)
        ELSE getDateAfterTradingDays(first.value.v, b)

\* The capability is applied to its own result, and once to the sum.
EvalTwoSteps ==
    /\ ev.op = "none"
    /\ \E startDateStr \in StartDates, a \in 0..MaxTradingDays, b \in 0..MaxTradingDays :
          ev' = [op |-> "twoSteps", startDateStr |-> startDateStr, a |-> a, b |-> b,
                 first |-> getDateAfterTradingDays(startDateStr, a),
                 settlement |-> TwoSteps(startDateStr, a, b),
                 atOnce |-> getDateAfterTradingDays(startDateStr, a + b)]
    /\ UNCHANGED <<driverVars, isolateId, engine, hostUse, rebound, peer, faults, sim>>

\* ------------------------------------------------------- the request layer
\* The rate tables whose EUR entry, when a number, is 0.92.
ShortRate(response) ==
    response.fails \/ response.quote.t # "table"
        \/ response.quote.v["EUR"] \in {Undefined, Val("string", 0), Val("number", 9200000)}

\* The provider answers behind one capability call of a test snippet.
AnswersFor(call) ==
    CASE call.cap = "getTickerPrice" -> QuoteResponses
      [] call.cap = "getExchangeRate" -> {r \in ForexResponses : ShortRate(r)}
      [] call.cap = "findLastEarningsDate" -> EarningsResponses
      [] call.cap \in {"getPriceOnDate", "getHistoricalData"} ->
             {r \in CandleResponses : WellFormed(r)}
      [] OTHER -> {[fails |-> FALSE]}

\* 'today' on the host.
Today == DateStr(2024, 3, 1)

\* How the capability called settles on a provider answer.
Answer(call, response) ==
    CASE call.cap = "getTickerPrice" -> getTickerPrice(response)
      [] call.cap = "getExchangeRate" -> getExchangeRate(response, "EUR")
      [] call.cap = "findLastEarningsDate" -> findLastEarningsDate(response, Today)
      [] call.cap = "getPriceOnDate" -> getPriceOnDate(response, call.arg)
      [] call.cap = "getHistoricalData" -> getHistoricalData(response)
      [] OTHER -> getDateAfterTradingDays(call.arg, 5)

\* process.env: FINNHUB_API_KEY is set or it is not.
Environments == [FINNHUB_API_KEY : {"", "token"}]

\* getApiKey: throws when the variable is missing or empty.
getApiKey(env) ==
    IF env.FINNHUB_API_KEY = "" THEN Reject("NoApiKey")
    ELSE Resolve(Val("string", env.FINNHUB_API_KEY))

\* A makeFinnhubRequest that sends the request without looking for the key.
makeFinnhubRequestWithoutKey(env, response) == [sent |-> 1, data |-> response]

\* makeFinnhubRequest: getApiKey() is its first statement, outside the try
\* block around axios.get, so without a key it throws before any request
\* is sent; with one, the request goes out and the provider answers.
makeFinnhubRequest(env, response) ==
    IF getApiKey(env).how = "reject"
    THEN [sent |-> 0, data |-> [response EXCEPT !.fails = TRUE]]
    ELSE [sent |-> 1, data |-> response]

\* The capabilities that fetch from the provider.
DataCaps == Caps \ {"getDateAfterTradingDays"}

\* The argument of the one call made of each: a date for getPriceOnDate.
RequestArg(cap) == IF cap = "getPriceOnDate" THEN DateStr(2024, 2, 29) ELSE 1

\* HTTP requests sent by one call of a capability: findLastEarningsDate
\* throws on startOfDay before it gets to fetchFinnhubEarningsCalendar.
RequestsSent(cap, env, response) ==
    IF cap = "findLastEarningsDate" /\ "startOfDay" \notin Imports THEN 0
    ELSE makeFinnhubRequest(env, response).sent

\* One data capability is called in one environment.
EvalRequest ==
    /\ ev.op = "none"
    /\ \E env \in Environments, cap \in DataCaps :
          \E response \in AnswersFor(Call(cap, RequestArg(cap))) :
              ev' = [op |-> "request", cap |-> cap, env |-> env, response |-> response,
                     sent |-> RequestsSent(cap, env, response),
                     settlement |-> Answer(Call(cap, RequestArg(cap)),
                                           makeFinnhubRequest(env, response).data)]
    /\ UNCHANGED <<driverVars, isolateId, engine, hostUse, rebound, peer, faults, sim>>

\* ------------------------------------------- the capabilities on their own
\* One capability implementation is evaluated on one provider answer.
ApiNext ==
    \/ EvalGetTickerPrice
    \/ EvalGetHistoricalData
    \/ EvalGetExchangeRate
    \/ EvalFindLastEarningsDate
    \/ EvalGetPriceOnDate
    \/ EvalGetDateAfterTradingDays
    \/ EvalTwoSteps
    \/ EvalRequest

SpecApi == Init /\ [][ApiNext]_vars

\* ------------------------------------------------- the two test snippets
\* testExecutionWithRealData runs two snippets through executeJsInIsolate;
\* jsCode.text says which.  Each `await capability(..)` issues the call and
\* yields; the host's answer is what the capability implementation makes
\* of the provider's answer.

\* The capability's number as the snippet sees it, a Number: a price comes
\* in thousandths, a rate in units of 10^-7.
PriceNumber(val) == Number(val.v, 1000)
RateNumber(val) == Number(val.v, 10 ^ 7)

\* A number the snippet computes, tagged apart from the decimals the
\* capabilities hand over.
Computed(x) == Val("double", x)

\* A snippet that adds where code1 multiplies.
Plus(x, y) == Computed(Sum(x, y))

\* priceUsd * rate
Times(x, y) == Computed(Product(x, y))

\* ((priceAfter5Days / priceOnEarnings) - 1) * 100, for priceOnEarnings other
\* than 0.
PercentChange(after, before) ==
    Computed(Product(Difference(Quotient(PriceNumber(after), PriceNumber(before)),
                                Number(1, 1)),
                     Number(100, 1)))

\* Whether the try block of the implementation called threw on this
\* answer: the fetch function it awaits threw (fetchFinnhubForexRates
\* never does, it catches), or, in findLastEarningsDate, startOfDay did.
Threw(call, response) ==
    CASE call.cap = "getTickerPrice" -> fetchFinnhubQuote(response).how = "reject"
      [] call.cap = "findLastEarningsDate" ->
             "startOfDay" \notin Imports
                 \/ fetchFinnhubEarningsCalendar(response).how = "reject"
      [] call.cap \in {"getPriceOnDate", "getHistoricalData"} ->
             fetchFinnhubCandles(response).how = "reject"
      [] OTHER -> FALSE

\* The host implementation of call i finishes on a provider answer and its
\* settlement is delivered to the suspended snippet.
HostAnswers(i, response) ==
    /\ isolate = "live"
    /\ pc \in {"running", "apply"}
    /\ sn = "suspended"
    /\ i \in PendingIds
    /\ LET s == Answer(calls[i], response)
       IN calls' = [calls EXCEPT ![i] =
                        [@ EXCEPT !.status = "delivered",
                                  !.underlying = IF Threw(calls[i], response)
                                                 THEN "throws" ELSE "ok",
                                  !.how = s.how, !.value = s.value]]
    /\ UNCHANGED <<others, isolateId, engine, jsCode, pc, isolate, context,
                   jail, clock, runStart, phaseStart, sn, snValue, outcome,
                   settledAt, teardown>>

\* Results within a capability's declared type (Promise<string | null>,
\* Promise<number | null>) that the implementations do not produce on the
\* provider answers above: a last earnings date (one of them in 2023), a
\* price on a date outside the candles, a price of 0.  code2 is driven through these as well.
DeclaredResults(call) ==
    CASE call.cap = "findLastEarningsDate" ->
             {Null, Val("string", DateStr(2023, 12, 28)),
              Val("string", DateStr(2024, 2, 22)), Val("string", DateStr(2024, 2, 23))}
      [] call.cap = "getPriceOnDate" ->
             {Null, Val("number", 0), Val("number", 150250), Val("number", 165280)}
      [] OTHER -> {}

\* Call i resolves to val and the settlement is delivered to the suspended
\* snippet.
HostSettles(i, val) ==
    /\ isolate = "live"
    /\ pc \in {"running", "apply"}
    /\ sn = "suspended"
    /\ i \in PendingIds
    /\ calls' = [calls EXCEPT ![i] =
                     [@ EXCEPT !.status = "delivered", !.underlying = "ok",
                               !.how = "resolve", !.value = val]]
    /\ UNCHANGED <<others, isolateId, engine, jsCode, pc, isolate, context,
                   jail, clock, runStart, phaseStart, sn, snValue, outcome,
                   settledAt, teardown>>

\* await capability(arg)
AwaitCall(cap, arg) ==
    /\ calls' = Append(calls, [Call(cap, arg) EXCEPT !.awaited = TRUE])
    /\ sn' = "suspended"
    /\ UNCHANGED snValue

\* return val
ReturnValue(val) ==
    /\ sn' = "resolved"
    /\ snValue' = val
    /\ UNCHANGED calls

\* code1: price of AAPL in EUR.
Code1Step ==
    LET n == Len(calls)
    IN  CASE n = 0 -> AwaitCall("getTickerPrice", 1)
          [] n = 1 ->
               IF calls[1].value = Null THEN ReturnValue(Null)
               ELSE AwaitCall("getExchangeRate", 1)
          [] OTHER ->
               IF calls[2].value = Null THEN ReturnValue(Null)
               ELSE ReturnValue(Times(PriceNumber(calls[1].value),
                                      RateNumber(calls[2].value)))

\* A code2 that divides without looking at the divisor.
\* (A division by 0 gives Infinity or NaN, and so do - 1 and * 100 after it.)
Code2ResultUnguarded(priceAfter5Days, priceOnEarnings) ==
    IF priceOnEarnings = Val("number", 0) THEN Val("infinity", 0)
    ELSE PercentChange(priceAfter5Days, priceOnEarnings)

\* if (priceOnEarnings === 0) return null;
\* return ((priceAfter5Days / priceOnEarnings) - 1) * 100;
Code2Result(priceAfter5Days, priceOnEarnings) ==
    IF priceOnEarnings = Val("number", 0) THEN Null
    ELSE PercentChange(priceAfter5Days, priceOnEarnings)

\* code2: price change of NVDA over the five trading days after its last
\* earnings date.  (Its console.log lines reach the engine's own inert
\* console and do nothing.)
Code2Step ==
    LET n == Len(calls)
        last == calls[n].value
    IN  CASE n = 0 -> AwaitCall("findLastEarningsDate", 1)
          [] n = 1 ->
               IF last = Null THEN ReturnValue(Null)
               ELSE AwaitCall("getPriceOnDate", last.v)
          [] n = 2 ->
               IF last = Null THEN ReturnValue(Null)
               ELSE AwaitCall("getDateAfterTradingDays", calls[1].value.v)
          [] n = 3 ->
               IF last = Null THEN ReturnValue(Null)
               ELSE AwaitCall("getPriceOnDate", last.v)
          [] OTHER ->
               IF last = Null THEN ReturnValue(Null)
               ELSE ReturnValue(Code2Result(last, calls[2].value))

\* The test snippet runs up to its next await or return.
ScriptStep ==
    /\ SnippetExecuting
    /\ IF jsCode.text = "code1" THEN Code1Step ELSE Code2Step
    /\ UNCHANGED <<others, isolateId, engine, jsCode, pc, isolate, context,
                   jail, clock, runStart, phaseStart, outcome, settledAt,
                   teardown>>

\* Both snippets compile.
InitTest ==
    /\ jsCode \in [valid : {TRUE}, text : {"code1", "code2"}]
    /\ InitDriver
    /\ faults = {}
    /\ peer = NoPeer

TestNext ==
    \/ NewIsolate
    \/ NewIsolateFails
    \/ CreateContext
    \/ CreateContextFails
    \/ SetGlobal
    \/ InstallNext
    \/ InstallFails
    \/ Compile
    \/ StartRun
    \/ Tick
    \/ RunTimeout
    \/ RunReturnsReference
    \/ ScriptStep
    \/ \E i \in PendingIds : \E response \in AnswersFor(calls[i]) : HostAnswers(i, response)
    \/ \E i \in PendingIds : \E val \in DeclaredResults(calls[i]) : HostSettles(i, val)
    \/ SnippetResume
    \/ ApplyReturns
    \/ ApplyTimeout

SpecTest == InitTest /\ [][TestNext]_vars

\* ------------------------------------------------------------ runSimulation
\* Most strategies in a request, and most allocations in a strategy.
MaxStrategies == 2
MaxAllocations == 2

\* Percentages are written in thousandths of a percent: 50 and 50.01.  50 and
\* 50 make 100; 50 and 50.01 make 100.00999999999999, which is within 0.01
\* of 100; 50.01 and 50.01, or one allocation alone, are further away.
Allocations ==
    {[ticker |-> "AAPL", percentage |-> 50000],
     [ticker |-> "MSFT", percentage |-> 50010]}

\* StrategyConfig: its name may be empty, its allocations missing or empty.
StrategyConfigs ==
    [name : {"", "Tech"},
     allocations : {Undefined}
         \cup {Val("list", a) : a \in SeqsUpTo(Allocations, MaxAllocations)}]

\* SimulationRequest (the period is fixed).
SimulationRequests ==
    [strategies : {Undefined}
         \cup {Val("list", s) : s \in SeqsUpTo(StrategyConfigs, MaxStrategies)},
     initialInvestment : {-1, 0, 10000}]

\* allocations.reduce((sum, a) => sum + a.percentage, sum): the percentages
\* are Numbers and are added one by one, from the left.
RECURSIVE reduce(_, _)
reduce(allocations, sum) ==
    IF allocations = <<>> THEN sum
    ELSE reduce(Tail(allocations), Sum(sum, Number(allocations[1].percentage, 1000)))

\* s.allocations.reduce((sum, a) => sum + a.percentage, 0)
totalPercent(allocations) == reduce(allocations, Zero)

\* Math.abs
Abs(x) == [x EXCEPT !.neg = FALSE]

\* A validation that accepts any percentages.
StrategyErrorOnlyMissing(s) ==
    IF s.name = "" \/ s.allocations.t = "undefined" \/ Len(s.allocations.v) = 0
    THEN "MissingNameOrAllocations"
    ELSE "none"

\* The body of strategies.forEach: what it throws for one strategy.
StrategyError(s) ==
    IF s.name = "" \/ s.allocations.t = "undefined" \/ Len(s.allocations.v) = 0
    THEN "MissingNameOrAllocations"
    ELSE IF Less(Number(1, 100), Abs(Difference(totalPercent(s.allocations.v), Number(100, 1))))
         THEN "NotHundredPercent"
         ELSE "none"

\* StrategyError of the strategies a request can hold, computed once.
StrategyErrors == [s \in {config : config \in StrategyConfigs} |-> StrategyError(s)]

\* strategies.forEach from index idx on: the first error thrown.
RECURSIVE FirstStrategyError(_, _)
FirstStrategyError(strategies, idx) ==
    IF idx > Len(strategies) THEN "none"
    ELSE IF StrategyErrors[strategies[idx]] # "none"
         THEN StrategyErrors[strategies[idx]]
         ELSE FirstStrategyError(strategies, idx + 1)

\* The validation at the top of runSimulation: what it throws, if anything.
RequestError(request) ==
    IF request.strategies.t = "undefined" \/ Len(request.strategies.v) = 0
           \/ request.initialInvestment <= 0
    THEN "MissingStrategiesOrInvestment"
    ELSE FirstStrategyError(request.strategies.v, 1)

\* allTickers: every ticker of every allocation of every strategy.
allTickers(strategies) ==
    UNION {{strategies[i].allocations.v[j].ticker :
                j \in 1..Len(strategies[i].allocations.v)} : i \in 1..Len(strategies)}

\* runSimulation(request) is called and runs up to its await: it validates
\* the request and throws, or calls fetchFinnhubCandles once for every
\* ticker and waits for all of them.
RunSimulation(request) ==
    /\ sim.pc = "none"
    /\ sim' = IF RequestError(request) # "none"
              THEN [pc |-> "done", request |-> request, called |-> {},
                    data |-> [ticker \in {} |-> "pending"], results |-> <<>>,
                    outcome |-> [kind |-> "Threw", error |-> RequestError(request)]]
              ELSE [pc |-> "fetching", request |-> request,
                    called |-> allTickers(request.strategies.v),
                    data |-> [ticker \in allTickers(request.strategies.v) |-> "pending"],
                    results |-> <<>>,
                    outcome |-> [kind |-> "Pending", error |-> "none"]]
    /\ UNCHANGED <<driverVars, isolateId, engine, ev, hostUse, rebound, peer, faults>>

\* One fetchFinnhubCandles promise settles: with candles, with none ({}), or
\* it rejects.  (Those still pending when runSimulation has thrown settle
\* all the same.)
FetchSettles(ticker, answer) ==
    /\ sim.pc \in {"fetching", "done"}
    /\ ticker \in DOMAIN sim.data
    /\ sim.data[ticker] = "pending"
    /\ sim' = [sim EXCEPT !.data[ticker] = answer]
    /\ UNCHANGED <<driverVars, isolateId, engine, ev, hostUse, rebound, peer, faults>>

\* Promise.all rejects with the first rejection; the catch block throws
\* "Simulation failed: Could not retrieve historical data".
SimulationFails ==
    /\ sim.pc = "fetching"
    /\ \E ticker \in DOMAIN sim.data : sim.data[ticker] = "rejected"
    /\ sim' = [sim EXCEPT !.pc = "done",
                          !.outcome = [kind |-> "Threw", error |-> "DataNotRetrieved"]]
    /\ UNCHANGED <<driverVars, isolateId, engine, ev, hostUse, rebound, peer, faults>>

\* Every fetch was answered: each strategy is simulated in turn (without
\* another await) and { results } is returned, one result per strategy.
SimulationReturns ==
    /\ sim.pc = "fetching"
    /\ \A ticker \in DOMAIN sim.data : sim.data[ticker] \in {"candles", "empty"}
    /\ sim' = [sim EXCEPT !.pc = "done",
                          !.results = [i \in 1..Len(sim.request.strategies.v) |->
                                          sim.request.strategies.v[i].name],
                          !.outcome = [kind |-> "Returned", error |-> "none"]]
    /\ UNCHANGED <<driverVars, isolateId, engine, ev, hostUse, rebound, peer, faults>>

SimNext ==
    \/ sim.pc = "none" /\ \E request \in SimulationRequests : RunSimulation(request)
    \/ \E ticker \in {"AAPL", "MSFT"}, answer \in {"candles", "empty", "rejected"} :
           FetchSettles(ticker, answer)
    \/ SimulationFails
    \/ SimulationReturns

SpecSim == Init /\ [][SimNext]_vars

\* ------------------------------------------------------------ driver states
\* The state of the driver's state machine the position pc stands for:
\* Created until compileScript has resolved, Compiled until script.run is
\* called, Running while script.run is awaited, Awaiting while
\* promiseRef.apply is awaited, then what the caller got.
DriverState ==
    CASE pc = "done" -> outcome.kind
      [] pc = "apply" -> "Awaiting"
      [] pc = "running" -> "Running"
      [] pc = "run" -> "Compiled"
      [] OTHER -> "Created"

Terminal == {"Completed", "Failed", "TimedOut"}

Rank(st) ==
    CASE st = "Created" -> 1
      [] st = "Compiled" -> 2
      [] st = "Running" -> 3
      [] st = "Awaiting" -> 4
      [] OTHER -> 5

\* ------------------------------------------------------------------ claims
IsolateCreated == isolate # "null"
ContextCreated == context # "null"
Settled == pc = "done"
SinceRun == settledAt - runStart

\* C1: a call that created an isolate tears it down exactly once however it
\* ends: the finally block releases the context (when one was created) and
\* then disposes the isolate, once each, and nothing is torn down before
\* the call has ended.
C1_TeardownExactlyOnce ==
    /\ Settled /\ IsolateCreated =>
          teardown = IF ContextCreated THEN <<"release", "dispose">> ELSE <<"dispose">>
    /\ ~Settled => teardown = <<>>

C1_Witness_TimedOutTornDown ==
    /\ Settled
    /\ outcome.kind = "TimedOut"
    /\ teardown = <<"release", "dispose">>
    /\ isolate = "disposed"

\* C2: every session of a snippet that compiles settles no later than the
\* configured timeout plus epsilon after script.run was called.
C2_SettlesWithinTimeoutPlusEpsilon ==
    Settled /\ runStart >= 0 => SinceRun <= SCRIPT_EXECUTION_TIMEOUT + Epsilon

\* C3: no Completed value is returned later than the configured timeout
\* after the start of the run.
C3_NoCompletedAfterDeadline ==
    Settled /\ outcome.kind = "Completed" => SinceRun <= SCRIPT_EXECUTION_TIMEOUT

\* C4: the run phase and the await phase share one budget: while
\* promiseRef.apply is awaited, the time since script.run was called never
\* exceeds the configured timeout.
C4_AwaitWithinRemainingBudget ==
    pc = "apply" => clock - runStart <= SCRIPT_EXECUTION_TIMEOUT

C6_CapabilityFailureYieldsSentinel ==
    \A i \in CallIds :
        calls[i].underlying = "throws" =>
            /\ calls[i].how = "resolve"
            /\ calls[i].value = IF calls[i].cap = "getHistoricalData"
                                THEN EmptyList ELSE Null

C6_Witness_FailureAbsorbed ==
    /\ Settled
    /\ outcome.kind = "Completed"
    /\ \E i \in CallIds : calls[i].cap = "getHistoricalData" /\ calls[i].underlying = "throws"
    /\ \E i \in CallIds : calls[i].cap # "getHistoricalData" /\ calls[i].underlying = "throws"

\* C7: when the snippet raises an uncaught exception, at top level during
\* script.run or inside its async closure, the caller gets that error thrown
\* (the very value the snippet threw) and never a value returned.
C7_SnippetErrorIsThrown ==
    Settled /\ sn \in {"threw", "rejected"} =>
        /\ outcome.kind = "Failed"
        /\ outcome.error = ErrorName(snValue)
        /\ outcome.value = NoValue

\* C8: a snippet that does not compile is never run: script.run is not
\* called, no capability is invoked, and the call ends by throwing; the
\* compile error is what it throws once compilation was reached.
C8_CompileErrorRunsNothing ==
    ~jsCode.valid =>
        /\ sn = "idle"
        /\ runStart = -1
        /\ calls = <<>>
        /\ pc \notin {"run", "running", "apply"}
        /\ Settled => outcome.kind = "Failed"
        /\ Settled /\ Installed = Caps => outcome.error = "CompileError"

C8_Witness_CompileError ==
    /\ Settled
    /\ ~jsCode.valid
    /\ outcome.error = "CompileError"
    /\ teardown = <<"release", "dispose">>

\* C9: the driver state only moves forward: from a state to the next one of
\* Created, Compiled, Running, Awaiting, or to a terminal state; a terminal
\* state is never left, so a session reaches one terminal state only.
C9_DriverStatesInOrder ==
    [][DriverState' # DriverState =>
          /\ DriverState \notin Terminal
          /\ \/ Rank(DriverState') = Rank(DriverState) + 1
             \/ DriverState' \in Terminal]_vars

C9_Witness_AllStatesPassed ==
    /\ Settled
    /\ outcome.kind = "Completed"
    /\ Len(calls) = MaxCalls

\* C10: on Completed the caller gets the value the snippet's promise
\* resolved to, unchanged: null stays null, 0 stays 0.
C10_ResultIsResolvedValue ==
    Settled /\ outcome.kind = "Completed" => outcome.value = snValue

C10_Witness_ZeroReturned ==
    /\ Settled
    /\ outcome.kind = "Completed"
    /\ snValue = Val("number", 0)
    /\ outcome.value = Val("number", 0)

\* C11: a snippet that returns getTickerPrice(ticker) for a ticker the
\* provider does not recognise gets null from the capability, and so ends
\* Completed with null: whatever the provider answers for an unknown ticker
\* (a failed request, a body without a numeric price, the all-zero quote),
\* getTickerPrice resolves to null.
C11_UnknownTickerYieldsNull ==
    (ev.op = "getTickerPrice" /\ ev.response \in UnknownTickerResponses)
        => ev.settlement = Resolve(Null)

\* C12: getExchangeRate resolves to null whenever the rate table is missing
\* or holds no number under toCurrency, getPriceOnDate resolves to null
\* whenever the fetched candles hold no price under exactly the requested
\* date, and neither call ever rejects.
HasRate(response, toCurrency) ==
    IF response.fails \/ response.quote.t # "table" THEN FALSE
    ELSE IsNumber(response.quote.v[toCurrency])
HasPriceOn(response, date) ==
    /\ ~response.fails
    /\ response.s = "ok"
    /\ \E i \in 1..Len(response.t) : format(fromUnixTime(response.t[i])) = date
C12_MissingRateOrPriceIsNull ==
    /\ ev.op = "getExchangeRate" =>
          /\ ev.settlement.how = "resolve"
          /\ ~HasRate(ev.response, ev.toCurrency) => ev.settlement.value = Null
    /\ ev.op = "getPriceOnDate" =>
          /\ ev.settlement.how = "resolve"
          /\ ~HasPriceOn(ev.response, ev.date) => ev.settlement.value = Null
\* A rate table that holds a number for the other currency and a string
\* for the one asked for: the call has resolved to null.
C12_Witness_NonNumericRate ==
    /\ ev.op = "getExchangeRate"
    /\ ev.response.quote.t = "table"
    /\ ev.response.quote.v[ev.toCurrency].t = "string"
    /\ \E other \in Currencies : IsNumber(ev.response.quote.v[other])
    /\ ev.settlement = Resolve(Null)

\* C13: the list getHistoricalData returns is strictly ascending by date,
\* holds exactly the dates of the fetched candles, and is empty when there
\* is no data.
FetchedDates(response) ==
    IF response.fails \/ response.s # "ok" THEN {}
    ELSE {format(fromUnixTime(response.t[i])) : i \in 1..Len(response.t)}
C13_HistoricalDataAscending ==
    ev.op = "getHistoricalData" =>
        LET list == ev.settlement.value.v
        IN  /\ ev.settlement.how = "resolve"
            /\ \A i \in 1..(Len(list) - 1) :
                  parseISO(list[i].date) < parseISO(list[i + 1].date)
            /\ {list[i].date : i \in 1..Len(list)} = FetchedDates(ev.response)
            /\ FetchedDates(ev.response) = {} => list = <<>>
\* Three candles arriving latest first, two of them on the same day: the
\* list holds the two days.
C13_Witness_UnorderedDuplicates ==
    /\ ev.op = "getHistoricalData"
    /\ ev.response.s = "ok"
    /\ Len(ev.response.t) = 3
    /\ ev.response.t[1] > ev.response.t[2]
    /\ ev.response.t[2] > ev.response.t[3]
    /\ Len(ev.settlement.value.v) = 2

\* C14: findLastEarningsDate(t, d) never returns a date on or after d,
\* returns the latest record date strictly before d when there is one, and
\* returns null exactly when there is none.
RecordsBefore(response, beforeDateStr) ==
    IF response.fails \/ ~response.isArray THEN {}
    ELSE {response.earningsCalendar[i].date :
             i \in {j \in 1..Len(response.earningsCalendar) :
                       parseISO(response.earningsCalendar[j].date)
                           < parseISO(beforeDateStr)}}
C14_LastEarningsBeforeDate ==
    ev.op = "findLastEarningsDate" =>
        LET before == RecordsBefore(ev.response, ev.beforeDateStr)
            result == ev.settlement.value
        IN  /\ ev.settlement.how = "resolve"
            /\ result.t = "string" => parseISO(result.v) < parseISO(ev.beforeDateStr)
            /\ before # {} =>
                  /\ result.t = "string"
                  /\ result.v \in before
                  /\ \A date \in before : parseISO(date) <= parseISO(result.v)
            /\ result = Null <=> before = {}

\* C15: getDateAfterTradingDays(d, 0) is d; for n > 0 the result is
\* strictly after d and is the n-th day after d that is neither a Saturday
\* nor a Sunday.
NonWeekend(day) == getDay(day) \notin {0, 6}
C15_NthNonWeekendDay ==
    ev.op = "getDateAfterTradingDays" =>
        LET result == ev.settlement.value
            start == parseISO(ev.startDateStr)
        IN  /\ ev.tradingDays = 0 => result = Val("string", ev.startDateStr)
            /\ ev.tradingDays > 0 =>
                  /\ result.t = "string"
                  /\ parseISO(result.v) > start
                  /\ NonWeekend(parseISO(result.v))
                  /\ Cardinality({day \in (start + 1)..parseISO(result.v) :
                                     NonWeekend(day)}) = ev.tradingDays
\* One trading day after Friday 2024-03-01 is Monday 2024-03-04.
C15_Witness_OverTheWeekend ==
    /\ ev.op = "getDateAfterTradingDays"
    /\ ev.startDateStr = DateStr(2024, 3, 1)
    /\ ev.tradingDays = 1
    /\ ev.settlement = Resolve(Val("string", DateStr(2024, 3, 4)))

\* C16: the host-provided names on the jail are the six capabilities and
\* nothing else (beside "global", the sandbox's own global object); the
\* snippet runs only once all six are installed, every host call it makes
\* is a call of one of them, and it never gets hold of another host
\* facility: using one throws inside the sandbox.
C16_OnlyCapabilitiesReachable ==
    /\ jail \subseteq Caps \cup {"global"}
    /\ sn # "idle" => jail \ {"global"} = Caps
    /\ \A i \in CallIds : calls[i].cap \in Caps
    /\ hostUse.reached = {}
    /\ hostUse.unbound # {} => sn = "rejected"
\* A snippet that called fetch: the use threw, the call of
\* executeJsInIsolate failed with the snippet's error.
C16_Witness_FetchUnbound ==
    /\ Settled
    /\ "fetch" \in hostUse.unbound
    /\ outcome.kind = "Failed"
    /\ outcome.error = "SnippetError"

\* C17: once the capabilities are installed no step changes what a
\* capability name is bound to: no name is ever rebound, and every call of
\* a capability name invokes the host implementation.
C17_BindingsNeverChange ==
    /\ rebound = {}
    /\ \A i \in CallIds : calls[i].status # "local"

\* C18: two concurrent calls never hold the same isolate; the isolate of a
\* call is disposed of by that call's own teardown only; a step of one call
\* leaves the other call exactly as it was; and what each call reports and
\* tears down is what its own run determines.
EndsAsAlone(s) ==
    s.pc = "done" =>
        /\ s.outcome = ExpectedOutcome(s)
        /\ s.teardown = ExpectedTeardown(s)
        /\ s.isolateId # 0 => s.isolateId \in engine.disposed
C18_ConcurrentCallsIsolated ==
    /\ [](peer.pc # "none" =>
             /\ isolateId # 0 /\ peer.isolateId # 0 => isolateId # peer.isolateId
             /\ isolate = "live" => isolateId \notin engine.disposed
             /\ peer.isolate = "live" => peer.isolateId \notin engine.disposed
             /\ EndsAsAlone(ThisSession)
             /\ EndsAsAlone(peer))
    /\ [][peer.pc # "none" =>
             \/ peer' = peer
             \/ peer' = ThisSession /\ ThisSession' = peer]_vars
\* The call that made its isolate second has timed out while awaiting its
\* snippet and is torn down; the call that made its isolate first is still
\* awaiting its snippet in its own live isolate.
C18_Witness_OneEndsOtherRuns ==
    /\ peer.pc = "done"
    /\ peer.outcome.kind = "TimedOut"
    /\ peer.runStart < peer.phaseStart
    /\ peer.isolateId = 2
    /\ engine.disposed = {2}
    /\ pc = "apply"
    /\ isolate = "live"
    /\ isolateId = 1

\* C19: whichever teardown calls throw, the caller gets what the run
\* itself produced (the same value, the same original error), never the
\* teardown's error, and both teardown calls are made: dispose is still
\* attempted after a release that threw.
C19_TeardownFailureNotSurfaced ==
    Settled =>
        /\ outcome = ExpectedOutcome(ThisSession)
        /\ outcome.error # "TeardownError"
        /\ teardown = ExpectedTeardown(ThisSession)
\* Both release and dispose threw after the snippet had resolved: the call
\* completed with the snippet's value and both were attempted.
C19_Witness_BothTeardownCallsThrow ==
    /\ Settled
    /\ faults = {"release", "dispose"}
    /\ outcome.kind = "Completed"
    /\ outcome.value = snValue
    /\ teardown = <<"release", "dispose">>

\* C20: a call that timed out ends at the timeout with its teardown done,
\* whatever capability calls are still in flight; from then on no
\* capability call is added, no settlement is delivered into the sandbox,
\* the snippet stays killed, and the outcome and the teardown stay as they
\* are: a late host response is dropped.
TimedOutEnded == Settled /\ outcome.kind = "TimedOut"
C20_LateResponsesDiscarded ==
    /\ [](TimedOutEnded =>
             /\ sn = "killed"
             /\ isolate = "disposed"
             /\ teardown = ExpectedTeardown(ThisSession)
             /\ settledAt - phaseStart < SCRIPT_EXECUTION_TIMEOUT + TickMs)
    /\ [][TimedOutEnded =>
             /\ outcome' = outcome
             /\ teardown' = teardown
             /\ settledAt' = settledAt
             /\ sn' = sn
             /\ snValue' = snValue
             /\ Len(calls') = Len(calls)
             /\ \A i \in CallIds :
                   calls'[i].status = "delivered" => calls[i] = calls'[i]]_vars
\* A call timed out while one capability call was in flight; the host's
\* answer came after the teardown and was dropped.
C20_Witness_LateResponseDropped ==
    /\ TimedOutEnded
    /\ teardown = <<"release", "dispose">>
    /\ \E i \in CallIds : calls[i].status = "discarded"

\* C21: every capability argument, capability return value and final result
\* crosses the sandbox boundary as a copy, whichever way it goes; nothing
\* handed into the sandbox is a live reference to a host object or host
\* function, and nothing returned to the caller is a live reference into
\* the sandbox.
C21_OnlyCopiesCross ==
    \A c \in Crossed :
        /\ c.what \in {"argument", "return value", "result"} => c.form = "copy"
        /\ c.dir = "in" => c.form = "copy"
        /\ c.to = "caller" => c.form = "copy"

\* What code1 does apart from the number it computes: the exchange-rate call
\* is issued only after the price call was answered with a price, and the
\* run completes, with null when either capability answered null.
Code1CallsAndNull ==
    /\ Len(calls) >= 2 =>
          /\ calls[1].cap = "getTickerPrice"
          /\ calls[1].status = "delivered"
          /\ calls[1].value # Null
          /\ calls[2].cap = "getExchangeRate"
    /\ Settled /\ sn = "resolved" =>
          /\ outcome.kind = "Completed"
          /\ (\E i \in CallIds : calls[i].value = Null) => outcome.value = Null

\* code1 has completed on a price of 150.25 and a rate of 0.92.
Code1OnExample ==
    /\ jsCode.text = "code1"
    /\ Settled
    /\ sn = "resolved"
    /\ Len(calls) = 2
    /\ calls[1].value = Val("number", 150250)
    /\ calls[2].value = Val("number", 9200000)

\* C22, as stated: code1 completes with exactly price times rate, 150.25 and
\* 0.92 giving 138.23, and with null when either capability answered null;
\* the exchange-rate call is issued only after the price call was answered
\* with a price.
C22_Code1GivesDecimalProduct ==
    jsCode.text = "code1" =>
        /\ Code1CallsAndNull
        /\ Code1OnExample => outcome.value = Computed(Number(13823, 100))

\* C22, amended: code1 completes with the Number priceUsd * rate, the product
\* of the two capability values rounded to the nearest Number, 150.25 and
\* 0.92 giving 138.23000000000002 (the Number next above 138.23), and
\* with null when either capability answered null; the exchange-rate call
\* is issued only after the price call was answered with a price.
C22_Code1PriceTimesRate ==
    jsCode.text = "code1" =>
        /\ Code1CallsAndNull
        /\ Settled /\ sn = "resolved" /\ (\A i \in CallIds : calls[i].value # Null) =>
              outcome.value = Computed(Product(PriceNumber(calls[1].value),
                                               RateNumber(calls[2].value)))
        /\ Code1OnExample =>
              outcome.value = Computed([neg |-> FALSE, m |-> <<656, 9175, 13762, 1105>>, e |-> -45])

C22_Witness_AaplInEuro ==
    /\ Code1OnExample
    /\ outcome.kind = "Completed"
    /\ outcome.value = Computed([neg |-> FALSE, m |-> <<656, 9175, 13762, 1105>>, e |-> -45])
    /\ Number(13823, 100) = [neg |-> FALSE, m |-> <<655, 9175, 13762, 1105>>, e |-> -45]

\* C23: a memory failure reaches the caller as a failure (ResourceError),
\* whether the engine could not create the isolate under its memory limit
\* or ended it when the snippet allocated past the limit; such a run never
\* completes with a value.
C23_MemoryFailureSurfaced ==
    Settled /\ (sn = "oom" \/ (sn = "idle" /\ isolate = "null")) =>
        /\ outcome.kind = "Failed"
        /\ outcome.error = "ResourceError"
        /\ outcome.value = NoValue

C23_Witness_OverLimitDuringRun ==
    /\ Settled
    /\ sn = "oom"
    /\ runStart >= 0
    /\ outcome.kind = "Failed"
    /\ teardown = <<"release", "dispose">>

\* C24: code2, once run, never ends Failed, whatever its capabilities
\* answer: it completes with null when a capability answered null or the
\* price on the earnings date is 0, and otherwise with
\* (priceAfter5Days / priceOnEarnings - 1) * 100.
C24_Code2AlwaysCompletes ==
    jsCode.text = "code2" =>
        /\ Settled /\ runStart >= 0 => outcome.kind # "Failed"
        /\ Settled /\ sn = "resolved" =>
              /\ outcome.kind = "Completed"
              /\ outcome.value =
                    IF \E i \in CallIds : calls[i].value = Null THEN Null
                    ELSE IF calls[2].value.v = 0 THEN Null
                         ELSE Computed(Product(Difference(Quotient(PriceNumber(calls[4].value),
                                                                   PriceNumber(calls[2].value)),
                                                          Number(1, 1)),
                                               Number(100, 1)))
              /\ outcome.value # Null =>
                    /\ Len(calls) = 4
                    /\ calls[3].value = getDateAfterTradingDays(calls[1].value.v, 5).value

C24_Witness_ChangeAfterEarnings ==
    /\ jsCode.text = "code2"
    /\ Settled
    /\ outcome.kind = "Completed"
    /\ Len(calls) = 4
    /\ calls[1].value = Val("string", DateStr(2024, 2, 23))
    /\ calls[3].value = Val("string", DateStr(2024, 3, 1))
    /\ calls[2].value = Val("number", 150250)
    /\ calls[4].value = Val("number", 165280)
    \* 10.003327787021622
    /\ outcome.value = Computed([neg |-> FALSE, m |-> <<6674, 14339, 6978, 1280>>, e |-> -49])

\* C25: for every start date and every n >= 1 the safety break of
\* getDateAfterTradingDays (daysAdded > 3n) never triggers: the loop ends
\* within 3n days and the result is a date string, never null.
C25_SafetyBreakNeverTriggers ==
    ev.op = "getDateAfterTradingDays" /\ ev.tradingDays >= 1 =>
        /\ ev.settlement.how = "resolve"
        /\ ev.settlement.value # Null
        /\ ev.settlement.value.t = "string"
        /\ parseISO(ev.settlement.value.v) - parseISO(ev.startDateStr)
              <= 3 * ev.tradingDays
        /\ \A daysAdded \in 1..(parseISO(ev.settlement.value.v) - parseISO(ev.startDateStr)) :
              ~SafetyBreak(daysAdded, ev.tradingDays)

\* The break's margin is used up exactly: one trading day after a Friday
\* takes 3 days.
C25_Witness_ThreeDaysForOne ==
    /\ ev.op = "getDateAfterTradingDays"
    /\ ev.tradingDays = 1
    /\ getDay(parseISO(ev.startDateStr)) = 5
    /\ ev.settlement.value.t = "string"
    /\ parseISO(ev.settlement.value.v) - parseISO(ev.startDateStr) = 3

\* C26: getDateAfterTradingDays composes additively: for a, b >= 0, b
\* trading days after a trading days after d is a + b trading days after d.
C26_TradingDaysAdd ==
    ev.op = "twoSteps" =>
        /\ ev.settlement = ev.atOnce
        /\ ev.settlement.value.t = "string"

\* Thursday 2024-02-29, one trading day and one more: Friday, then Monday
\* 2024-03-04, which is two trading days after the Thursday.
C26_Witness_FridayThenMonday ==
    /\ ev.op = "twoSteps"
    /\ ev.startDateStr = DateStr(2024, 2, 29)
    /\ ev.a = 1 /\ ev.b = 1
    /\ ev.first = Resolve(Val("string", DateStr(2024, 3, 1)))
    /\ ev.settlement = Resolve(Val("string", DateStr(2024, 3, 4)))
    /\ ev.atOnce = ev.settlement

\* C27: without an API key every data capability resolves to its sentinel
\* (null, or the empty list for getHistoricalData) whatever the provider
\* would have answered, and no HTTP request is sent.
C27_NoKeyNoRequest ==
    ev.op = "request" /\ ev.env.FINNHUB_API_KEY = "" =>
        /\ ev.sent = 0
        /\ ev.settlement.how = "resolve"
        /\ IF ev.cap = "getHistoricalData"
           THEN ev.settlement.value.t = "list" /\ ev.settlement.value.v = <<>>
           ELSE ev.settlement.value = Null

\* The provider would have quoted a price; without the key it is not asked.
C27_Witness_QuoteNotRequested ==
    /\ ev.op = "request"
    /\ ev.cap = "getTickerPrice"
    /\ ev.env.FINNHUB_API_KEY = ""
    /\ getTickerPrice(ev.response) = Resolve(Val("number", 150250))
    /\ ev.sent = 0
    /\ ev.settlement = Resolve(Null)

\* C28: runSimulation validates the whole request before it fetches
\* anything: with no strategies, an initial investment that is not
\* positive, a strategy without a name or without allocations, or
\* percentages that do not add up to 100 within 0.01, it throws and
\* fetchFinnhubCandles is never called; and when the fetch of any ticker
\* fails it throws without a result for any strategy.
\* The percentages written, added up as decimals (in thousandths).
RECURSIVE WrittenTotal(_)
WrittenTotal(allocations) ==
    IF allocations = <<>> THEN 0
    ELSE allocations[1].percentage + WrittenTotal(Tail(allocations))
InvalidStrategy(s) ==
    \/ s.name = ""
    \/ s.allocations.t = "undefined"
    \/ s.allocations.v = <<>>
    \/ WrittenTotal(s.allocations.v) < 100000 - 10
    \/ WrittenTotal(s.allocations.v) > 100000 + 10
InvalidRequest(request) ==
    \/ request.strategies.t = "undefined"
    \/ request.strategies.v = <<>>
    \/ request.initialInvestment <= 0
    \/ \E i \in 1..Len(request.strategies.v) : InvalidStrategy(request.strategies.v[i])
C28_ValidatedBeforeFetch ==
    sim.pc # "none" =>
        /\ InvalidRequest(sim.request) =>
              /\ sim.pc = "done"
              /\ sim.outcome.kind = "Threw"
              /\ sim.called = {}
              /\ sim.results = <<>>
        /\ sim.pc = "fetching" \/ sim.outcome.kind = "Returned"
                  \/ sim.outcome.error = "DataNotRetrieved" =>
              sim.called = allTickers(sim.request.strategies.v)
        /\ sim.pc = "done" /\ (\E ticker \in sim.called : sim.data[ticker] = "rejected")
              /\ (\A ticker \in sim.called : sim.data[ticker] # "pending") =>
              /\ sim.outcome.kind = "Threw"
              /\ sim.results = <<>>
        /\ sim.outcome.kind = "Threw" => sim.results = <<>>
        /\ sim.outcome.kind = "Returned" =>
              /\ \A ticker \in sim.called : sim.data[ticker] \in {"candles", "empty"}
              /\ Len(sim.results) = Len(sim.request.strategies.v)

\* The second strategy's percentages add up to 50: nothing is fetched, not
\* even for the first, valid strategy.
C28_Witness_SecondStrategyInvalid ==
    /\ sim.pc = "done"
    /\ sim.request.initialInvestment > 0
    /\ Len(sim.request.strategies.v) = 2
    /\ ~InvalidStrategy(sim.request.strategies.v[1])
    /\ sim.request.strategies.v[2].name # ""
    /\ sim.request.strategies.v[2].allocations.t = "list"
    /\ Len(sim.request.strategies.v[2].allocations.v) = 1
    /\ InvalidStrategy(sim.request.strategies.v[2])
    /\ sim.outcome = [kind |-> "Threw", error |-> "NotHundredPercent"]
    /\ sim.called = {}
====
